---- MODULE Spec2Model ----
(***************************************************************************)
(* The system dataset lifecycle manager of middlewared                     *)
(* (plugins/sysdataset.py): configuration resolution, validation and      *)
(* automatic pool selection of do_update, migrate, setup, the mount and   *)
(* unmount loops and the service quiesce guard, as a state machine.       *)
(***************************************************************************)
EXTENDS Integers, Sequences, FiniteSets, TLC

(***************************************************************************)
(* Bounds of the model.                                                    *)
(***************************************************************************)
\* top-level operations (API updates, direct setup calls) submitted in a run
MaxOps == 2
\* external commands (mount, umount, rsync, zfs) that fail in a run
MaxFaults == 1
\* task frames: a top-level operation, the update job a setup submits, ...
MaxTasks == 3

(***************************************************************************)
(* Names.                                                                  *)
(***************************************************************************)
SYSDATASET_PATH == "/var/db/system"
ScratchPath == "/tmp/system.new"
\* boot.pool_name
BootPool == "boot-pool"
\* pool.query: the data pools in discovery order
PoolOrder == <<"tank", "backup">>
DataPools == {PoolOrder[i] : i \in 1..Len(PoolOrder)}
AllPools == DataPools \cup {BootPool}
\* a pool name that pool.query never returns
GonePool == "gone"
\* Python's None, the empty string, and a key absent from the update's data
None == "None"
Empty == ""
Unspec == "unspecified"
\* uuid.uuid4().hex draws
UUIDs == {"u1", "u2"}

(***************************************************************************)
(* Dataset topology: __get_datasets.                                       *)
(***************************************************************************)
\* CTDBConfig.CTDB_VOL_NAME.value
CTDB_VOL_NAME == "ctdb_shared_vol"

Label(base, uuid) == [base |-> base, uuid |-> uuid]
RootLabel == Label("", "")
CoresLabel == Label("cores", "")

\* the child names of __get_datasets, in its order
ChildLabels(uuid) ==
  << Label("cores", ""), Label("samba4", ""), Label("syslog-", uuid),
     Label("rrd-", uuid), Label("configs-", uuid),
     Label("webui", ""), Label("services", ""),
     Label("glusterd", ""), Label(CTDB_VOL_NAME, "") >>

Dataset(pool, label) == [pool |-> pool, label |-> label]

\* the listing with the root after its children
GetDatasetsRootLast(pool, uuid) ==
  [i \in 1..Len(ChildLabels(uuid)) |->
      [dataset |-> Dataset(pool, ChildLabels(uuid)[i]), name |-> ChildLabels(uuid)[i]]]
  \o << [dataset |-> Dataset(pool, RootLabel), name |-> RootLabel] >>

\* [(f'{pool}/.system', '')] + [(f'{pool}/.system/{i}', i) for i in [...]]
GetDatasets(pool, uuid) ==
  << [dataset |-> Dataset(pool, RootLabel), name |-> RootLabel] >> \o
  [i \in 1..Len(ChildLabels(uuid)) |->
      [dataset |-> Dataset(pool, ChildLabels(uuid)[i]), name |-> ChildLabels(uuid)[i]]]

DatasetSet(pool, uuid) ==
  {GetDatasets(pool, uuid)[i].dataset : i \in 1..Len(GetDatasets(pool, uuid))}

Reverse(s) == [i \in 1..Len(s) |-> s[Len(s) + 1 - i]]

(***************************************************************************)
(* The mount table, in mount order (as /proc/mounts and                   *)
(* psutil.disk_partitions list it): entries [mp, dev].                     *)
(***************************************************************************)
MountPoint(path, label) == [path |-> path, label |-> label]

\* Path(mp).is_mount()
IsMount(m, mp) == \E i \in 1..Len(m) : m[i].mp = mp

\* the device is mounted somewhere
DevMounted(m, dev) == \E i \in 1..Len(m) : m[i].dev = dev

\* umount <dataset>: util-linux looks the source up backwards in the mount
\* table and unmounts that entry
LastIndexOf(m, dev) ==
  CHOOSE i \in 1..Len(m) : m[i].dev = dev /\ \A j \in (i+1)..Len(m) : m[j].dev # dev

RemoveAt(m, i) == [j \in 1..(Len(m) - 1) |-> IF j < i THEN m[j] ELSE m[j + 1]]

UmountDev(m, dev) == RemoveAt(m, LastIndexOf(m, dev))

\* umount -R <path>: every mount at or below path
UmountTree(m, path) == SelectSeq(m, LAMBDA e : e.mp.path # path)

MountsUnder(m, path) == SelectSeq(m, LAMBDA e : e.mp.path = path)

\* the devices mounted at or below path, as a set of [mp, dev]
MountSet(m, path) == {m[i] : i \in {j \in 1..Len(m) : m[j].mp.path = path}}

(***************************************************************************)
(* __mount: for every dataset in topology order, skip a mountpoint that   *)
(* is mounted, else mount -t zfs (check=True).  failAt is the position    *)
(* whose mount command fails (0: none); a dataset that does not exist     *)
(* cannot be mounted.  Result: the mount table, whether the loop ended    *)
(* without an exception, and the `mounted` flag.                           *)
(***************************************************************************)
\* is_mounted that never finds a mountpoint mounted
IsMountedNever(m, mp) == FALSE

\* is_mounted(mp): Path(mp).is_mount()
IsMounted(m, mp) == IsMount(m, mp)

RECURSIVE MountLoop(_, _, _, _, _, _, _)
MountLoop(i, m, ds, gd, path, failAt, mounted) ==
  IF i > Len(gd) THEN [mounts |-> m, ok |-> TRUE, mounted |-> mounted]
  ELSE LET mp == MountPoint(path, gd[i].name) IN
       IF IsMounted(m, mp) THEN MountLoop(i + 1, m, ds, gd, path, failAt, mounted)
       ELSE IF i = failAt \/ gd[i].dataset \notin ds
            THEN [mounts |-> m, ok |-> FALSE, mounted |-> mounted]
            ELSE MountLoop(i + 1, Append(m, [mp |-> mp, dev |-> gd[i].dataset]),
                           ds, gd, path, failAt, TRUE)

\* a __mount that goes on with the next dataset when a mount command fails
RECURSIVE MountLoopPastFailure(_, _, _, _, _, _, _, _)
MountLoopPastFailure(i, m, ds, gd, path, failAt, mounted, ok) ==
  IF i > Len(gd) THEN [mounts |-> m, ok |-> ok, mounted |-> mounted]
  ELSE LET mp == MountPoint(path, gd[i].name) IN
       IF IsMounted(m, mp) THEN MountLoopPastFailure(i + 1, m, ds, gd, path, failAt, mounted, ok)
       ELSE IF i = failAt \/ gd[i].dataset \notin ds
            THEN MountLoopPastFailure(i + 1, m, ds, gd, path, failAt, mounted, FALSE)
            ELSE MountLoopPastFailure(i + 1, Append(m, [mp |-> mp, dev |-> gd[i].dataset]),
                                      ds, gd, path, failAt, TRUE, ok)

MountPastFailure(m, ds, pool, uuid, path, failAt) ==
  MountLoopPastFailure(1, m, ds, GetDatasets(pool, uuid), path, failAt, FALSE, TRUE)

Mount(m, ds, pool, uuid, path, failAt) ==
  MountLoop(1, m, ds, GetDatasets(pool, uuid), path, failAt, FALSE)

\* the mount commands of a call: what it added to the table
MountsAdded(before, after) == SubSeq(after, Len(before) + 1, Len(after))

\* the datasets whose commands the environment lets fail: the root, the
\* first child and the last child
FaultLabels == {RootLabel, CoresLabel, Label(CTDB_VOL_NAME, "")}

\* the positions whose mount command runs and could fail
MountFaultSpots(m, ds, pool, uuid, path) ==
  LET gd == GetDatasets(pool, uuid)
      runs == {i \in 1..Len(gd) : ~IsMount(m, MountPoint(path, gd[i].name))}
  IN {i \in runs : gd[i].name \in FaultLabels /\ \A j \in runs : j <= i => gd[j].dataset \in ds}

(***************************************************************************)
(* __umount: for every dataset in reverse topology order, umount it;      *)
(* 'no mount point specified' (not mounted) is skipped, any other failure *)
(* raises.  failAt is the position (in the reversed order) whose umount   *)
(* fails (0: none).  `issued` is the sequence of datasets an umount     *)
(* command was run for.                                                    *)
(***************************************************************************)
NoMountPoint == "no mount point specified"

\* line 487: what `umount <flags> <dataset>` writes to stderr: nothing when
\* it unmounted the dataset, 'no mount point specified' for a dataset that
\* is not mounted, something else when it fails for a mounted one
UmountStderr(m, dataset, fails) ==
  IF ~DevMounted(m, dataset) THEN NoMountPoint
  ELSE IF fails THEN "failed" ELSE ""

\* a test that never takes a dataset for already unmounted
AlreadyUnmountedNever(stderr) == FALSE

\* lines 490-492: 'no mount point specified' in stderr: already unmounted
AlreadyUnmounted(stderr) == stderr = NoMountPoint

RECURSIVE UmountLoop(_, _, _, _)
UmountLoop(i, m, rd, failAt) ==
  IF i > Len(rd) THEN [mounts |-> m, ok |-> TRUE, issued |-> rd]
  ELSE LET stderr == UmountStderr(m, rd[i].dataset, i = failAt) IN
       IF stderr = "" THEN UmountLoop(i + 1, UmountDev(m, rd[i].dataset), rd, failAt)
       ELSE IF AlreadyUnmounted(stderr) THEN UmountLoop(i + 1, m, rd, failAt)
            ELSE [mounts |-> m, ok |-> FALSE, issued |-> SubSeq(rd, 1, i)]

\* what umount wrote to stderr when it failed for a mounted dataset
TargetBusy == "target is busy"
OtherFailure == "not permitted"

\* middleware.run_in_thread(method, *args) calls method(*args) in a worker
\* thread and hands back what it returned or raised; a method that is not
\* callable (a str) raises TypeError
RunInThread(callable, value) ==
  IF callable THEN [raised |-> "", value |-> value]
  ELSE [raised |-> "TypeError", value |-> None]

\* lines 494-505: the exception that leaves __umount when umount failed for
\* dataset with stderr.  Line 496 passes the string 'get_mp', not the
\* function get_mp, to run_in_thread.  names: the dataset the message
\* names; processes: the message lists the processes using the mountpoint.
UmountError(m, dataset, stderr) ==
  LET plain == [type |-> "CallError", names |-> dataset, processes |-> FALSE] IN
  IF stderr = TargetBusy
  THEN LET r == RunInThread(FALSE, IF DevMounted(m, dataset) THEN dataset ELSE None) IN
       IF r.raised # "" THEN [type |-> r.raised, names |-> "", processes |-> FALSE]
       ELSE IF r.value # None THEN [plain EXCEPT !.processes = TRUE] ELSE plain
  ELSE plain

\* __umount walking the datasets in topology order
UmountForward(m, pool, uuid, failAt) ==
  UmountLoop(1, m, GetDatasets(pool, uuid), failAt)

Umount(m, pool, uuid, failAt) ==
  UmountLoop(1, m, Reverse(GetDatasets(pool, uuid)), failAt)

UmountFaultSpots(m, pool, uuid) ==
  LET rd == Reverse(GetDatasets(pool, uuid))
  IN {i \in 1..Len(rd) : rd[i].name \in FaultLabels /\ DevMounted(m, rd[i].dataset)}

(***************************************************************************)
(* __setup_datasets: create the datasets of the pool that do not exist;   *)
(* replace a cores dataset that uses 1 GiB or more (delete force and      *)
(* recursive, then create; a failure there is logged, not raised).        *)
(* fault: 0 none, i the zfs call at position i fails (the create, or the  *)
(* delete of the cores replacement), Len+1 the create after the delete of *)
(* the cores replacement fails.  `gone` collects the datasets deleted.     *)
(***************************************************************************)
DropDev(m, dev) == SelectSeq(m, LAMBDA e : e.dev # dev)

\* a cores dataset taken to be over the threshold whatever it uses
CoresOverQuotaAlways(big, d) == TRUE

\* datasets_prop[dataset]['used']['parsed'] >= 1024 ** 3
CoresOverQuota(big, d) == d.pool \in big

RECURSIVE SetupDatasetsLoop(_, _, _, _, _, _, _, _)
SetupDatasetsLoop(i, ds, big, m, gd, have, fault, gone) ==
  IF i > Len(gd) THEN [datasets |-> ds, big |-> big, mounts |-> m, ok |-> TRUE, gone |-> gone]
  ELSE LET d == gd[i].dataset
           is_cores_ds == gd[i].name = CoresLabel
       IN IF d \notin have
          THEN IF fault = i
               THEN [datasets |-> ds, big |-> big, mounts |-> m, ok |-> FALSE, gone |-> gone]
               ELSE SetupDatasetsLoop(i + 1, ds \cup {d}, big, m, gd, have, fault, gone)
          ELSE IF is_cores_ds /\ CoresOverQuota(big, d)
               THEN IF fault = i
                    THEN \* the delete failed: logged
                         SetupDatasetsLoop(i + 1, ds, big, m, gd, have, fault, gone)
                    ELSE IF fault = Len(gd) + 1
                         THEN \* deleted, the create failed: logged
                              SetupDatasetsLoop(i + 1, ds \ {d}, big \ {d.pool},
                                                DropDev(m, d), gd, have, fault, gone \cup {d})
                         ELSE SetupDatasetsLoop(i + 1, ds, big \ {d.pool},
                                                DropDev(m, d), gd, have, fault, gone \cup {d})
               ELSE SetupDatasetsLoop(i + 1, ds, big, m, gd, have, fault, gone)

SetupDatasets(ds, big, m, pool, uuid, fault) ==
  SetupDatasetsLoop(1, ds, big, m, GetDatasets(pool, uuid),
                    ds \cap DatasetSet(pool, uuid), fault, {})

SetupDatasetsFaultSpots(ds, big, pool, uuid) ==
  LET gd == GetDatasets(pool, uuid)
      acts == {i \in 1..Len(gd) : gd[i].dataset \notin ds
                                  \/ (gd[i].name = CoresLabel /\ pool \in big)}
      firstCreate == {i \in acts : gd[i].dataset \notin ds}
  IN {i \in acts : gd[i].name \in FaultLabels /\ \A j \in firstCreate : j >= i}
     \cup (IF Dataset(pool, CoresLabel) \in ds /\ pool \in big
              /\ \A j \in firstCreate : j >= 2
           THEN {Len(gd) + 1} ELSE {})

(***************************************************************************)
(* config_extend: the resolved configuration of a stored record db.       *)
(* newid is the uuid4 drawn when the local identifier is empty.            *)
(***************************************************************************)
Truthy(x) == x # Empty /\ x # None

LocalUuid(d, isB) == IF isB THEN d.uuid_b ELSE d.uuid

\* the record as config_extend leaves it in the datastore
ConfigStore(d, isB, newid) ==
  IF Truthy(LocalUuid(d, isB)) THEN d
  ELSE IF isB THEN [d EXCEPT !.uuid_b = newid] ELSE [d EXCEPT !.uuid = newid]

\* the effective pool with the stored pool ignored
EffectivePoolIgnoringStored(stored, forced) ==
  IF Truthy(forced) THEN forced ELSE BootPool

\* the effective pool with the stored pool taken before the forced one
EffectivePoolStoredFirst(stored, forced) ==
  IF Truthy(stored) THEN stored ELSE IF Truthy(forced) THEN forced ELSE BootPool

EffectivePool(stored, forced) ==
  IF Truthy(forced) THEN forced ELSE IF Truthy(stored) THEN stored ELSE BootPool

ConfigExtend(d, forced, isB, m, newid) ==
  [ pool     |-> EffectivePool(d.pool, forced),
    pool_set |-> Truthy(d.pool),
    uuid     |-> IF Truthy(LocalUuid(d, isB)) THEN LocalUuid(d, isB) ELSE newid,
    uuid_a   |-> d.uuid,
    uuid_b   |-> IF isB /\ ~Truthy(d.uuid_b) THEN newid ELSE d.uuid_b,
    syslog   |-> d.syslog,
    path     |-> IF IsMount(m, MountPoint(SYSDATASET_PATH, RootLabel))
                 THEN SYSDATASET_PATH ELSE None ]

Basename(pool) == Dataset(pool, RootLabel)

\* the draws a configuration read may need
UuidDraws(d, isB) == IF Truthy(LocalUuid(d, isB)) THEN {Empty} ELSE UUIDs

(***************************************************************************)
(* destination_pool_error.                                                 *)
(***************************************************************************)
\* a requirement without the safety margin: C7 must reject it
InflateNoMargin(usedBytes) == usedBytes

\* int(used * 1.1): for used below 2^47 the double product truncates to
\* used + used div 10
Inflate(usedBytes) == usedBytes + (usedBytes \div 10)

NoError == "ok"
ErrNoDataset == "does not exist"
ErrNoSpace == "insufficient space"

DestinationPoolError(existing, usedBytes, destExists, available) ==
  IF ~existing THEN NoError
  ELSE IF ~destExists THEN ErrNoDataset
  ELSE IF available < Inflate(usedBytes) THEN ErrNoSpace
  ELSE NoError

(***************************************************************************)
(* The environment do_update and setup read: env is a record              *)
(*   imported  the data pools pool.query returns                           *)
(*   root      the state of each pool's root dataset: "ok", "pass"         *)
(*             (passphrase-encrypted, unlocked) or "locked"               *)
(*   avail     the available bytes of each pool's root dataset             *)
(*   used      the used bytes of the existing system dataset               *)
(*   datasets  the datasets that exist                                      *)
(***************************************************************************)
\* pool.query in discovery order
PoolQuery(env) == SelectSeq(PoolOrder, LAMBDA p : p \in env.imported)

\* zfs.dataset.get_instance(<pool>) finds the pool's root dataset
PoolDatasetExists(env, pool) == pool = BootPool \/ pool \in env.imported

\* pool.dataset.query [name = pool, OR [key_format = PASSPHRASE, locked]]
RootLockedOrPassphrase(env, pool) ==
  pool \in env.imported /\ env.root[pool] \in {"pass", "locked"}

DestinationError(env, cfgpool, new_pool) ==
  DestinationPoolError(Basename(cfgpool) \in env.datasets, env.used,
                       PoolDatasetExists(env, new_pool),
                       IF new_pool \in DOMAIN env.avail THEN env.avail[new_pool] ELSE 0)

(***************************************************************************)
(* do_update, lines 152-209: validation and automatic selection.          *)
(***************************************************************************)
ErrPolicy == "EPERM"
ErrNotFound == "ENOENT"
ErrLocked == "locked or passphrase"

ADEnabledStates == {"HEALTHY", "FAULTED"}
ADStates == {"DISABLED", "HEALTHY", "FAULTED"}

\* new = config.copy(); new.update(data)
NewPool0(cfg, data) == IF data.pool = Unspec THEN cfg.pool ELSE data.pool

\* for pool in pool.query: ... break / else: new['pool'] = ''
RECURSIVE AutoSelectFrom(_, _, _, _, _)
AutoSelectFrom(i, pools, env, cfgpool, exclude) ==
  IF i > Len(pools) THEN Empty
  ELSE IF exclude = pools[i] \/ RootLockedOrPassphrase(env, pools[i])
       THEN AutoSelectFrom(i + 1, pools, env, cfgpool, exclude)
       ELSE IF DestinationError(env, cfgpool, pools[i]) # NoError
            THEN AutoSelectFrom(i + 1, pools, env, cfgpool, exclude)
            ELSE pools[i]

\* a selection that takes the first pool listed, unexamined: C8 must reject it
AutoSelectFirstListed(env, cfgpool, exclude) ==
  IF PoolQuery(env) = <<>> THEN Empty ELSE PoolQuery(env)[1]

\* a selection that does not skip the excluded pool
AutoSelectIgnoringExclude(env, cfgpool, exclude) ==
  AutoSelectFrom(1, PoolQuery(env), env, cfgpool, None)

AutoSelect(env, cfgpool, exclude) ==
  AutoSelectFrom(1, PoolQuery(env), env, cfgpool, exclude)

\* a policy that lets a FAULTED directory service pass: C6 must reject it
PolicyErrorsHealthyOnly(cfg, new0, ready, ad) ==
  IF new0 # cfg.pool /\ ready /\ ad = "HEALTHY" THEN {ErrPolicy} ELSE {}

PolicyErrors(cfg, new0, ready, ad) ==
  IF new0 # cfg.pool /\ ready /\ ad \in ADEnabledStates THEN {ErrPolicy} ELSE {}

DestErrors(env, cfg, new0) ==
  IF new0 # cfg.pool /\ Truthy(new0) /\ DestinationError(env, cfg.pool, new0) # NoError
  THEN {DestinationError(env, cfg.pool, new0)} ELSE {}

PoolErrors(env, new0) ==
  IF Truthy(new0) /\ new0 # BootPool
  THEN IF new0 \notin env.imported THEN {ErrNotFound}
       ELSE IF RootLockedOrPassphrase(env, new0) THEN {ErrLocked} ELSE {}
  ELSE {}

ValidationErrors(env, cfg, data, ready, ad) ==
  PolicyErrors(cfg, NewPool0(cfg, data), ready, ad)
  \cup DestErrors(env, cfg, NewPool0(cfg, data))
  \cup PoolErrors(env, NewPool0(cfg, data))

\* new['pool'] when verrors.check() is reached
ValidatedPool(env, cfg, data) ==
  IF Truthy(NewPool0(cfg, data)) THEN NewPool0(cfg, data)
  ELSE AutoSelect(env, cfg.pool, data.exclude)

(***************************************************************************)
(* _query_pool_for_system_dataset: the first pool that is not excluded    *)
(* and whose root dataset is neither passphrase-encrypted nor locked;     *)
(* None when there is none.                                                *)
(***************************************************************************)
RECURSIVE QueryPoolFrom(_, _, _, _)
QueryPoolFrom(i, pools, env, exclude_pool) ==
  IF i > Len(pools) THEN None
  ELSE IF (Truthy(exclude_pool) /\ pools[i] = exclude_pool)
          \/ RootLockedOrPassphrase(env, pools[i])
       THEN QueryPoolFrom(i + 1, pools, env, exclude_pool)
       ELSE pools[i]

\* a pick that skips the excluded pool only: C10 must reject it
QueryPoolIgnoringLock(env, exclude_pool) ==
  LET rest == SelectSeq(PoolQuery(env),
                        LAMBDA q : ~(Truthy(exclude_pool) /\ q = exclude_pool))
  IN IF rest = <<>> THEN None ELSE rest[1]

QueryPoolForSystemDataset(env, exclude_pool) ==
  QueryPoolFrom(1, PoolQuery(env), env, exclude_pool)

(***************************************************************************)
(* State.                                                                  *)
(***************************************************************************)
VARIABLES
  imported,    \* the data pools that are imported (pool.query)
  rootState,   \* per data pool: "ok", "pass" or "locked"
  avail,       \* per pool: available bytes
  used,        \* used bytes of the existing system dataset
  nodeB,       \* system.is_enterprise and failover.node = 'B'
  db,          \* the system.systemdataset record: pool, syslog, uuid, uuid_b
  force_pool,  \* SystemDatasetService.force_pool (Empty: None)
  datasets,    \* the zfs datasets that exist
  bigCores,    \* the pools whose .system/cores uses 1 GiB or more
  mounts,      \* the mount table
  scratchDir,  \* /tmp/system.new exists
  coredump,    \* /var/lib/systemd/coredump is bind-mounted
  running,     \* the services that are running
  syslogCache, \* the cache key use_syslog_dataset: "unset" or "False"
  tasks,       \* the frames of the running operations
  ops,         \* top-level operations submitted so far
  faults       \* external command failures so far

envVars == <<imported, rootState, avail, used, nodeB>>
sysVars == <<db, force_pool, datasets, bigCores, mounts, scratchDir, coredump,
             running, syslogCache>>
vars == <<imported, rootState, avail, used, nodeB, db, force_pool, datasets,
          bigCores, mounts, scratchDir, coredump, running, syslogCache,
          tasks, ops, faults>>

Env == [imported |-> imported, root |-> rootState, avail |-> avail,
        used |-> used, datasets |-> datasets]

TaskIds == 1..MaxTasks

\* the sizes the environment reports: the system dataset uses UsedBytes, a
\* pool has AvailLow (less than the inflated use) or AvailHigh (enough)
UsedBytes == 10
AvailLow == Inflate(UsedBytes) - 1
AvailHigh == Inflate(UsedBytes)

NoData == [pool |-> Unspec, exclude |-> None, has_syslog |-> FALSE, syslog |-> FALSE]
NoCfg == [pool |-> Empty, pool_set |-> FALSE, uuid |-> Empty, uuid_b |-> Empty,
          syslog |-> FALSE]
NoDb == [pool |-> Empty, syslog |-> FALSE, uuid |-> Empty, uuid_b |-> Empty]
NoObs == [ready |-> FALSE, ad |-> "DISABLED"]
NoSnap == [mounts |-> <<>>, datasets |-> {}, bigCores |-> {}, running |-> {},
           scratchDir |-> FALSE, coredump |-> FALSE, syslogCache |-> "unset",
           force_pool |-> Empty]

FreeFrame ==
  [ kind |-> "free", pc |-> "", parent |-> 0, data |-> NoData,
    cfg |-> NoCfg, obs |-> NoObs, verrs |-> {}, new_pool |-> Empty,
    db0 |-> NoDb, sys0 |-> NoSnap, result |-> "",
    from |-> Empty, to |-> Empty, copy |-> "none", mig0 |-> NoSnap,
    gone |-> {}, did |-> {},
    scfg |-> NoCfg, pick |-> Unspec, mounted_pool |-> None, mounted |-> None, child |-> 0,
    restart |-> <<>>, raise |-> FALSE,
    guard |-> "none", stops |-> <<>>, starts |-> <<>>, enter |-> <<>>, exit |-> <<>>,
    stderr |-> "", error |-> [type |-> "", names |-> "", processes |-> FALSE],
    added |-> <<>>, triggers |-> {}, hook |-> "", invoked |-> FALSE, run0 |-> {},
    conf |-> <<>>, reg0 |-> <<>>, reg |-> <<>>, v4rules |-> <<>>, v6rules |-> <<>>,
    path |-> Empty, calls |-> 0, issued |-> <<>>, umounts |-> <<>>,
    listing |-> <<>>, ret |-> NoCfg, bare |-> FALSE, first |-> NoCfg ]

Idle == \A t \in TaskIds : tasks[t].kind = "free"

FreeSlot(t) == tasks[t].kind = "free" /\ \A u \in TaskIds : u < t => tasks[u].kind # "free"

\* the job lock sysdataset_update is held by an update job from its start to its end
HoldsLock(t) == tasks[t].kind = "update" /\ tasks[t].pc \notin {"queued", "done"}
\* a lock that is free whoever holds it
LockFreeAlways == TRUE

LockFree == \A t \in TaskIds : ~HoldsLock(t)

MyUuid == LocalUuid(db, nodeB)

\* what an operation finds when it starts to run (kept for the properties)
Snapshot == [mounts |-> mounts, datasets |-> datasets, bigCores |-> bigCores,
             running |-> running, scratchDir |-> scratchDir, coredump |-> coredump,
             syslogCache |-> syslogCache, force_pool |-> force_pool]

(***************************************************************************)
(* Initial states: the system dataset is set up and mounted on the boot   *)
(* pool (stored pool unset or the boot pool) or on tank, or the record is *)
(* as installed (no pool, no identifier) and nothing is set up yet; a     *)
(* second pool may hold a system dataset left from another system, its    *)
(* cores full.  Both data pools are imported, or tank alone with no pool   *)
(* stored.                                                                 *)
(***************************************************************************)
InitUuid == "u0"

MountAll(pool, uuid, path) ==
  [i \in 1..Len(GetDatasets(pool, uuid)) |->
      [mp |-> MountPoint(path, GetDatasets(pool, uuid)[i].name),
       dev |-> GetDatasets(pool, uuid)[i].dataset]]

BaseServices == {"collectd", "rrdcached", "syslogd"}

Init ==
  /\ imported \in {DataPools, {"tank"}}
  /\ rootState \in [DataPools -> {"ok", "pass", "locked"}]
  /\ imported = {"tank"} =>
        /\ rootState = [q \in DataPools |-> "ok"]
        /\ avail = [q \in AllPools |-> AvailHigh]
  /\ rootState["backup"] # "pass"
  /\ avail \in [AllPools -> {AvailLow, AvailHigh}]
  /\ avail[BootPool] = AvailHigh
  /\ \A q \in DataPools : rootState[q] # "ok" => avail[q] = AvailHigh
  /\ used = UsedBytes
  /\ nodeB = FALSE
  /\ \E host \in {BootPool, "tank", Empty}, left \in SUBSET {"backup"} :
       /\ host = "tank" => rootState["tank"] = "ok"
       /\ \A q \in left : rootState[q] = "ok" /\ avail[q] = AvailHigh
       /\ host = Empty => left = {} /\ \A q \in DataPools : avail[q] = AvailHigh
       /\ db \in {[pool |-> sp, syslog |-> FALSE,
                    uuid |-> IF host = Empty THEN Empty ELSE InitUuid, uuid_b |-> Empty] :
                    sp \in IF host = BootPool THEN {Empty, BootPool}
                           ELSE IF host = Empty THEN {Empty} ELSE {host}}
       /\ datasets = (IF host = Empty THEN {} ELSE DatasetSet(host, InitUuid))
                       \cup UNION {DatasetSet(q, InitUuid) : q \in left}
       /\ bigCores = left
       /\ mounts = IF host = Empty THEN <<>> ELSE MountAll(host, InitUuid, SYSDATASET_PATH)
       /\ imported = {"tank"} => db.pool = Empty /\ left = {}
  /\ force_pool = Empty
  /\ scratchDir = FALSE
  /\ coredump = TRUE
  /\ running = BaseServices \cup {"cifs", "glusterd"}
  /\ syslogCache = "unset"
  /\ tasks = [t \in TaskIds |-> FreeFrame]
  /\ ops = 0
  /\ faults = 0

(***************************************************************************)
(* Submitting operations.                                                  *)
(***************************************************************************)
UpdateInputs ==
  {[pool |-> p, exclude |-> None, has_syslog |-> FALSE, syslog |-> FALSE] :
      p \in DataPools \cup {BootPool, GonePool, None}}
  \cup {[pool |-> None, exclude |-> "tank", has_syslog |-> FALSE, syslog |-> FALSE]}
  \cup {[pool |-> Unspec, exclude |-> None, has_syslog |-> TRUE, syslog |-> TRUE]}

\* an API call of systemdataset.update: the job is queued
SubmitUpdate(t, data) ==
  /\ ops < MaxOps
  /\ Idle
  /\ FreeSlot(t)
  /\ tasks' = [tasks EXCEPT ![t] = [FreeFrame EXCEPT !.kind = "update", !.pc = "queued",
                                                     !.data = data, !.db0 = db]]
  /\ ops' = ops + 1
  /\ UNCHANGED <<envVars, sysVars, faults>>

\* the pools asked for by an update submitted while another is queued
ConcurrentInputs ==
  {[pool |-> p, exclude |-> None, has_syslog |-> FALSE, syslog |-> FALSE] : p \in DataPools}

\* a second API call of systemdataset.update, made before the job of the
\* first has started: both jobs are queued
SubmitConcurrentUpdate(t, data) ==
  /\ ops < MaxOps
  /\ FreeSlot(t)
  /\ \E u \in TaskIds : tasks[u].kind = "update"
  /\ \A u \in TaskIds : tasks[u].kind = "free"
                          \/ (tasks[u].kind = "update" /\ tasks[u].pc = "queued"
                                 /\ tasks[u].parent = 0)
  /\ tasks' = [tasks EXCEPT ![t] = [FreeFrame EXCEPT !.kind = "update", !.pc = "queued",
                                                     !.data = data, !.db0 = db]]
  /\ ops' = ops + 1
  /\ UNCHANGED <<envVars, sysVars, faults>>

\* the job queue starts a queued job when the lock sysdataset_update is free
StartJob(t) ==
  /\ tasks[t].kind = "update"
  /\ tasks[t].pc = "queued"
  /\ LockFree
  /\ tasks' = [tasks EXCEPT ![t].pc = "validate", ![t].db0 = db, ![t].sys0 = Snapshot]
  /\ UNCHANGED <<envVars, sysVars, ops, faults>>

\* the operation ended; its frame keeps the result until it is collected
Finish(t, frame, result) ==
  [tasks EXCEPT ![t] = [frame EXCEPT !.pc = "done", !.result = result]]

\* the caller of a top-level operation collects its result
Reap(t) ==
  /\ tasks[t].pc = "done"
  /\ tasks[t].parent = 0
  /\ tasks' = [tasks EXCEPT ![t] = FreeFrame]
  /\ UNCHANGED <<envVars, sysVars, ops, faults>>

(***************************************************************************)
(* do_update.                                                              *)
(***************************************************************************)
\* an update that goes on to the datastore whatever validation found: C5
\* must reject it
CheckErrorsNever(errs) == "persist"

\* line 209, verrors.check(): raise when an error was added
CheckErrors(errs) == IF errs # {} THEN "done" ELSE "persist"

\* lines 152-209: read the configuration, validate, select a pool
Validate(t) ==
  /\ tasks[t].kind = "update"
  /\ tasks[t].pc = "validate"
  /\ \E newid \in UuidDraws(db, nodeB), ready \in BOOLEAN, ad \in ADStates :
       LET config == ConfigExtend(db, force_pool, nodeB, mounts, newid)
           cfg == [pool |-> config.pool, pool_set |-> config.pool_set,
                   uuid |-> config.uuid, uuid_b |-> config.uuid_b,
                   syslog |-> config.syslog]
           errs == ValidationErrors(Env, cfg, tasks[t].data, ready, ad)
           frame == [tasks[t] EXCEPT !.cfg = cfg,
                                     !.obs = [ready |-> ready, ad |-> ad],
                                     !.verrs = errs,
                                     !.new_pool = ValidatedPool(Env, cfg, tasks[t].data)]
       IN /\ db' = ConfigStore(db, nodeB, newid)
          /\ tasks' = IF CheckErrors(errs) = "done" THEN Finish(t, frame, "verror")
                      ELSE [tasks EXCEPT ![t] = [frame EXCEPT !.pc = CheckErrors(errs)]]
  /\ UNCHANGED <<envVars, force_pool, datasets, bigCores, mounts, scratchDir, coredump,
                 running, syslogCache, ops, faults>>

\* lines 211-228: datastore.update, re-read the configuration, decide on migrate
Persist(t) ==
  /\ tasks[t].kind = "update"
  /\ tasks[t].pc = "persist"
  /\ LET f == tasks[t]
         stored == [pool |-> f.new_pool,
                    syslog |-> IF f.data.has_syslog THEN f.data.syslog ELSE f.cfg.syslog,
                    uuid |-> f.cfg.uuid,
                    uuid_b |-> f.cfg.uuid_b]
         newpool == EffectivePool(stored.pool, force_pool)
     IN /\ db' = stored
        /\ tasks' = [tasks EXCEPT ![t] =
              [f EXCEPT !.obs = NoObs,
                        !.pc = IF f.cfg.pool # newpool THEN "mig_datasets" ELSE "su_start",
                        !.from = IF f.cfg.pool # newpool THEN f.cfg.pool ELSE Empty,
                        !.to = IF f.cfg.pool # newpool THEN newpool ELSE Empty]]
  /\ UNCHANGED <<envVars, force_pool, datasets, bigCores, mounts, scratchDir, coredump,
                 running, syslogCache, ops, faults>>

(***************************************************************************)
(* _release_system_dataset: the services restarted around a guarded block. *)
(***************************************************************************)
\* a list that takes in cifs whether it is started or not
RestartListWithCifs(run) ==
  (IF "glusterd" \in run THEN <<"glusterd">> ELSE <<>>)
  \o <<"cifs", "collectd", "rrdcached", "syslogd">>
  \o (IF "webdav" \in run THEN <<"webdav">> ELSE <<>>)
  \o (IF "open-vm-tools" \in run THEN <<"open-vm-tools">> ELSE <<>>)
  \o (IF "idmap" \in run THEN <<"idmap">> ELSE <<>>)

\* restart = ['collectd', 'rrdcached', 'syslogd'] and the inserts and appends
\* (lines 553-564); run is the set of services service.started (for webdav
\* service.started_or_enabled) answers true for
RestartList(run) ==
  (IF "glusterd" \in run THEN <<"glusterd">> ELSE <<>>)
  \o (IF "cifs" \in run THEN <<"cifs">> ELSE <<>>)
  \o <<"collectd", "rrdcached", "syslogd">>
  \o (IF "webdav" \in run THEN <<"webdav">> ELSE <<>>)
  \o (IF "open-vm-tools" \in run THEN <<"open-vm-tools">> ELSE <<>>)
  \o (IF "idmap" \in run THEN <<"idmap">> ELSE <<>>)

SeqSet(q) == {q[i] : i \in 1..Len(q)}

\* one middleware call of the guard
GuardCall(op, arg) == [op |-> op, arg |-> arg]
ServiceCalls(op, q) == [i \in 1..Len(q) |-> GuardCall(op, q[i])]

\* an entry that stops the services before it takes syslog off the dataset
EnterCallsStopsFirst(stops) ==
  ServiceCalls("service.stop", stops)
  \o <<GuardCall("cache.put", "use_syslog_dataset"), GuardCall("service.restart", "syslogd"),
       GuardCall("core.stop_logging", "")>>

\* lines 567-575: the calls of the entry, in the order they are awaited
EnterCalls(stops) ==
  <<GuardCall("cache.put", "use_syslog_dataset"), GuardCall("service.restart", "syslogd"),
    GuardCall("core.stop_logging", "")>>
  \o ServiceCalls("service.stop", stops)

\* lines 579-584: the calls of the exit, in the order they are awaited
ExitCalls(starts) ==
  <<GuardCall("cache.pop", "use_syslog_dataset")>> \o ServiceCalls("service.start", starts)

\* lines 566-576: syslog off the dataset (syslogd restarted), then
\* service.stop for every service of the list, in its order.  failAt is the
\* position whose stop call raises (0: none): the loop ends there and the
\* block is not run.  stops is the sequence of stop calls issued.
GuardEnter(run, restart, failAt) ==
  LET issued == IF failAt = 0 THEN Len(restart) ELSE failAt
      done == IF failAt = 0 THEN Len(restart) ELSE failAt - 1
  IN [ running |-> (run \cup {"syslogd"}) \ {restart[i] : i \in 1..done},
       stops   |-> SubSeq(restart, 1, issued),
       calls   |-> EnterCalls(SubSeq(restart, 1, issued)),
       ok      |-> failAt = 0 ]

\* lines 578-584: restart.reverse(), then service.start for every service of
\* the list.  failAt is the position (in the reversed list) whose start call
\* raises (0: none): the loop ends there and the exception propagates.
\* starts is the sequence of start calls issued.
GuardExit(run, restart, failAt) ==
  LET rev == Reverse(restart)
      issued == IF failAt = 0 THEN Len(rev) ELSE failAt
      done == IF failAt = 0 THEN Len(rev) ELSE failAt - 1
  IN [ running |-> run \cup {rev[i] : i \in 1..done},
       starts  |-> SubSeq(rev, 1, issued),
       calls   |-> ExitCalls(SubSeq(rev, 1, issued)),
       ok      |-> failAt = 0 ]

\* the positions of a service list whose call the environment lets fail:
\* the first and the last
GuardFaultSpots(restart) == {1, Len(restart)}

(***************************************************************************)
(* Faults: an external command fails when the fault budget allows.        *)
(***************************************************************************)
FaultChoices(spots) == {0} \cup (IF faults < MaxFaults THEN spots ELSE {})
Cost(fault) == IF fault = 0 THEN 0 ELSE 1

(***************************************************************************)
(* migrate(_from, _to).                                                    *)
(***************************************************************************)
\* lines 520-522: __setup_datasets(_to)
MigDatasets(t) ==
  /\ tasks[t].pc = "mig_datasets"
  /\ \E fault \in FaultChoices(SetupDatasetsFaultSpots(datasets, bigCores, tasks[t].to, MyUuid)) :
       LET r == SetupDatasets(datasets, bigCores, mounts, tasks[t].to, MyUuid, fault)
           frame == [tasks[t] EXCEPT !.mig0 = Snapshot,
                                     !.gone = r.gone, !.did = {}, !.copy = "none"]
       IN /\ datasets' = r.datasets
          /\ bigCores' = r.big
          /\ mounts' = r.mounts
          /\ faults' = faults + Cost(fault)
          /\ tasks' = IF r.ok THEN [tasks EXCEPT ![t] = [frame EXCEPT !.pc = "mig_mount"]]
                      ELSE Finish(t, frame, "error")
  /\ UNCHANGED <<envVars, db, force_pool, scratchDir, coredump, running, syslogCache, ops>>

\* a migrate that mounts the new pool at the stable path from the start
MigratePathStable(from) == SYSDATASET_PATH

\* lines 524-532: path
MigratePath(from) == IF Truthy(from) THEN ScratchPath ELSE SYSDATASET_PATH

\* lines 524-533: the scratch directory (umount -R of an earlier attempt,
\* check=False), then __mount(_to, path)
MigMount(t) ==
  /\ tasks[t].pc = "mig_mount"
  /\ LET f == tasks[t]
         path == MigratePath(f.from)
         stale == Truthy(f.from) /\ scratchDir /\ MountsUnder(mounts, ScratchPath) # <<>>
     IN \E keep \in (IF stale /\ faults < MaxFaults THEN BOOLEAN ELSE {FALSE}) :
          LET m1 == IF Truthy(f.from) /\ scratchDir /\ ~keep
                    THEN UmountTree(mounts, ScratchPath) ELSE mounts
              left == MaxFaults - faults - (IF keep THEN 1 ELSE 0)
          IN \E fault \in {0} \cup (IF left > 0
                                    THEN MountFaultSpots(m1, datasets, f.to, MyUuid, path)
                                    ELSE {}) :
               LET r == Mount(m1, datasets, f.to, MyUuid, path, fault) IN
               /\ mounts' = r.mounts
               /\ scratchDir' = (scratchDir \/ Truthy(f.from))
               /\ faults' = faults + Cost(fault) + (IF keep THEN 1 ELSE 0)
               /\ tasks' = IF r.ok THEN [tasks EXCEPT ![t].pc = "mig_release"]
                           ELSE Finish(t, f, "error")
  /\ UNCHANGED <<envVars, db, force_pool, datasets, bigCores, coredump, running,
                 syslogCache, ops>>

\* line 535: enter the guard
MigRelease(t) ==
  /\ tasks[t].pc = "mig_release"
  /\ \E fault \in FaultChoices(GuardFaultSpots(RestartList(running))) :
       LET r == GuardEnter(running, RestartList(running), fault) IN
       /\ running' = r.running
       /\ syslogCache' = "False"
       /\ faults' = faults + Cost(fault)
       /\ tasks' = [tasks EXCEPT ![t].restart = RestartList(running),
                                 ![t].guard = "in",
                                 ![t].stops = r.stops,
                                 ![t].starts = <<>>,
                                 ![t].enter = r.calls,
                                 ![t].exit = <<>>,
                                 ![t].run0 = running,
                                 ![t].raise = ~r.ok,
                                 ![t].pc = IF r.ok THEN "mig_copy" ELSE "mig_restore"]
  /\ UNCHANGED <<envVars, db, force_pool, datasets, bigCores, mounts, scratchDir,
                 coredump, ops>>

\* a migrate that goes on whatever rsync returned: C3 must reject it
CopyBranchIgnoringRc(rc) == "mig_umount_from"

\* lines 536-538, 548-549: rsync -az; a non-zero return code raises
CopyBranch(rc) == IF rc = 0 THEN "mig_umount_from" ELSE "mig_restore"

MigCopy(t) ==
  /\ tasks[t].pc = "mig_copy"
  /\ \E rc \in FaultChoices({1}) :
       /\ faults' = faults + Cost(rc)
       /\ tasks' = [tasks EXCEPT ![t].copy = IF rc = 0 THEN "ok" ELSE "failed",
                                 ![t].raise = (CopyBranch(rc) = "mig_restore"),
                                 ![t].pc = CopyBranch(rc)]
  /\ UNCHANGED <<envVars, sysVars, ops>>

\* lines 540-541: umount the coredump bind mount, __umount(_from)
MigUmountFrom(t) ==
  /\ tasks[t].pc = "mig_umount_from"
  /\ \E fault \in FaultChoices(UmountFaultSpots(mounts, tasks[t].from, MyUuid)) :
       LET r == Umount(mounts, tasks[t].from, MyUuid, fault) IN
       /\ mounts' = r.mounts
       /\ coredump' = FALSE
       /\ faults' = faults + Cost(fault)
       /\ tasks' = [tasks EXCEPT ![t].did = @ \cup {"umount_from"},
                                 ![t].raise = ~r.ok,
                                 ![t].pc = IF r.ok THEN "mig_umount_to" ELSE "mig_restore"]
  /\ UNCHANGED <<envVars, db, force_pool, datasets, bigCores, scratchDir, running,
                 syslogCache, ops>>

\* line 542: __umount(_to)
MigUmountTo(t) ==
  /\ tasks[t].pc = "mig_umount_to"
  /\ \E fault \in FaultChoices(UmountFaultSpots(mounts, tasks[t].to, MyUuid)) :
       LET r == Umount(mounts, tasks[t].to, MyUuid, fault) IN
       /\ mounts' = r.mounts
       /\ coredump' = FALSE
       /\ faults' = faults + Cost(fault)
       /\ tasks' = [tasks EXCEPT ![t].did = @ \cup {"umount_to"},
                                 ![t].raise = ~r.ok,
                                 ![t].pc = IF r.ok THEN "mig_remount" ELSE "mig_restore"]
  /\ UNCHANGED <<envVars, db, force_pool, datasets, bigCores, scratchDir, running,
                 syslogCache, ops>>

\* line 543: __mount(_to, SYSDATASET_PATH)
MigRemount(t) ==
  /\ tasks[t].pc = "mig_remount"
  /\ \E fault \in FaultChoices(MountFaultSpots(mounts, datasets, tasks[t].to, MyUuid,
                                               SYSDATASET_PATH)) :
       LET r == Mount(mounts, datasets, tasks[t].to, MyUuid, SYSDATASET_PATH, fault) IN
       /\ mounts' = r.mounts
       /\ faults' = faults + Cost(fault)
       /\ tasks' = [tasks EXCEPT ![t].raise = ~r.ok,
                                 ![t].pc = IF r.ok THEN "mig_destroy" ELSE "mig_restore"]
  /\ UNCHANGED <<envVars, db, force_pool, datasets, bigCores, scratchDir, coredump,
                 running, syslogCache, ops>>

\* lines 544-545: zfs list ... | xargs zfs destroy -r; the result is not read
DestroySubtree(ds, pool) == {d \in ds : d.pool # pool}

\* a migrate that raises when the destroy pipeline fails
DestroyBranchChecked(rc) == IF rc = 0 THEN "mig_rmdir" ELSE "mig_restore"

\* lines 544-547: proc.communicate() is awaited, proc.returncode is not
\* read: os.rmdir comes next whatever the pipeline returned
DestroyBranch(rc) == "mig_rmdir"

MigDestroy(t) ==
  /\ tasks[t].pc = "mig_destroy"
  /\ \E fault \in FaultChoices(IF Basename(tasks[t].from) \in datasets THEN {1} ELSE {}) :
       LET ds1 == IF fault = 0 THEN DestroySubtree(datasets, tasks[t].from) ELSE datasets IN
       /\ datasets' = ds1
       /\ bigCores' = IF fault = 0 THEN bigCores \ {tasks[t].from} ELSE bigCores
       /\ mounts' = SelectSeq(mounts, LAMBDA e : e.dev \in ds1)
       /\ faults' = faults + Cost(fault)
       /\ tasks' = [tasks EXCEPT ![t].did = @ \cup {"destroy"},
                                 ![t].gone = @ \cup (datasets \ ds1),
                                 ![t].raise = (DestroyBranch(fault) = "mig_restore"),
                                 ![t].pc = DestroyBranch(fault)]
  /\ UNCHANGED <<envVars, db, force_pool, scratchDir, coredump, running, syslogCache, ops>>

\* line 547: os.rmdir('/tmp/system.new') fails on a directory that is a mountpoint
MigRmdir(t) ==
  /\ tasks[t].pc = "mig_rmdir"
  /\ LET busy == MountsUnder(mounts, ScratchPath) # <<>> IN
       /\ scratchDir' = busy
       /\ tasks' = [tasks EXCEPT ![t].raise = busy, ![t].pc = "mig_restore"]
  /\ UNCHANGED <<envVars, db, force_pool, datasets, bigCores, mounts, coredump,
                 running, syslogCache, ops, faults>>

\* lines 579-584: leave the guard; an exception of the block propagates
MigRestore(t) ==
  /\ tasks[t].pc = "mig_restore"
  /\ \E fault \in FaultChoices(GuardFaultSpots(tasks[t].restart)) :
       LET r == GuardExit(running, tasks[t].restart, fault)
           frame == [tasks[t] EXCEPT !.restart = <<>>, !.guard = "exited",
                                     !.starts = r.starts, !.exit = r.calls]
       IN /\ running' = r.running
          /\ syslogCache' = "unset"
          /\ faults' = faults + Cost(fault)
          /\ tasks' = IF tasks[t].raise \/ ~r.ok
                      THEN Finish(t, frame, "error")
                      ELSE [tasks EXCEPT ![t] = [frame EXCEPT !.pc = "su_start"]]
  /\ UNCHANGED <<envVars, db, force_pool, datasets, bigCores, mounts, scratchDir,
                 coredump, ops>>

(***************************************************************************)
(* setup(exclude_pool).                                                    *)
(***************************************************************************)
\* setup returned to its caller: do_update goes on, a direct call ends
AfterSetup(t, frame) ==
  IF frame.kind = "update" THEN [tasks EXCEPT ![t] = [frame EXCEPT !.pc = "upd_tail"]]
  ELSE Finish(t, frame, "ok")

\* middleware.call('systemdataset.update', data): a new job, queued
SubmitChild(tk, t, frame, c, data, stored) ==
  [tk EXCEPT ![t] = [frame EXCEPT !.child = c, !.pc = "su_wait"],
             ![c] = [FreeFrame EXCEPT !.kind = "update", !.pc = "queued", !.parent = t,
                                      !.data = data, !.db0 = stored]]

\* a test that misses a locked root dataset
RootUnavailableMissingOnly(env, pool) == pool \notin env.imported

\* lines 341-347: the root dataset of the configured pool is missing or locked
RootUnavailable(env, pool) == pool \notin env.imported \/ env.root[pool] = "locked"

\* lines 311-348
SuStart(t) ==
  /\ tasks[t].pc = "su_start"
  /\ \E newid \in UuidDraws(db, nodeB) :
       LET f == tasks[t]
           exclude_pool == f.data.exclude
           config == ConfigExtend(db, Empty, nodeB, mounts, newid)
           stored == ConfigStore(db, nodeB, newid)
           pick == QueryPoolForSystemDataset(Env, exclude_pool)
           asked == [f EXCEPT !.pick = pick]
           forced == config.pool # BootPool /\ RootUnavailable(Env, config.pool)
           scfg == [NoCfg EXCEPT !.pool = IF forced THEN BootPool ELSE config.pool,
                                 !.pool_set = config.pool_set, !.uuid = config.uuid]
       IN /\ db' = stored
          /\ IF config.pool # BootPool /\ config.pool \notin imported
             THEN /\ force_pool' = Empty
                  /\ \E c \in TaskIds :
                       /\ FreeSlot(c)
                       /\ tasks' = SubmitChild(tasks, t, f, c,
                                      [NoData EXCEPT !.pool = None, !.exclude = exclude_pool],
                                      stored)
             ELSE IF ~config.pool_set /\ pick # None
             THEN /\ force_pool' = Empty
                  /\ \E c \in TaskIds :
                       /\ FreeSlot(c)
                       /\ tasks' = SubmitChild(tasks, t, asked, c,
                                      [NoData EXCEPT !.pool = pick], stored)
             ELSE /\ force_pool' = IF forced THEN BootPool ELSE Empty
                  /\ tasks' = [tasks EXCEPT ![t] =
                        [(IF config.pool_set THEN f ELSE asked) EXCEPT !.scfg = scfg,
                                                                      !.pc = "su_switch"]]
  /\ UNCHANGED <<envVars, datasets, bigCores, mounts, scratchDir, coredump, running,
                 syslogCache, ops, faults>>

\* lines 322-325, 333-336: job.wait(); a failed job raises, else setup returns
SuWait(t) ==
  /\ tasks[t].pc = "su_wait"
  /\ LET c == tasks[t].child IN
       /\ tasks[c].pc = "done"
       /\ LET freed == [tasks EXCEPT ![c] = FreeFrame]
              frame == [tasks[t] EXCEPT !.child = 0]
          IN tasks' = IF tasks[c].result # "ok"
                      THEN [freed EXCEPT ![t] = [frame EXCEPT !.pc = "done", !.result = "error"]]
                      ELSE IF frame.kind = "update"
                           THEN [freed EXCEPT ![t] = [frame EXCEPT !.pc = "upd_tail"]]
                           ELSE [freed EXCEPT ![t] = [frame EXCEPT !.pc = "done", !.result = "ok",
                                                                   !.bare = TRUE]]
  /\ UNCHANGED <<envVars, sysVars, ops, faults>>

\* get_mounted_pool: the pool of the first partition mounted at SYSDATASET_PATH
GetMountedPool(m) ==
  LET hits == {i \in 1..Len(m) : m[i].mp = MountPoint(SYSDATASET_PATH, RootLabel)}
  IN IF hits = {} THEN None
     ELSE m[CHOOSE i \in hits : \A j \in hits : i <= j].dev.pool

\* lines 350-360: abandon the mounted pool inside the guard, or set up the datasets
SuSwitch(t) ==
  /\ tasks[t].pc = "su_switch"
  /\ LET f == tasks[t]
         mounted_pool == GetMountedPool(mounts)
     IN IF mounted_pool # None /\ mounted_pool # f.scfg.pool
        THEN /\ \E fault \in FaultChoices(GuardFaultSpots(RestartList(running))) :
                  LET r == GuardEnter(running, RestartList(running), fault) IN
                  /\ running' = r.running
                  /\ faults' = faults + Cost(fault)
                  /\ tasks' = [tasks EXCEPT ![t] =
                        [f EXCEPT !.mounted_pool = mounted_pool,
                                  !.restart = RestartList(running),
                                  !.guard = "in", !.stops = r.stops, !.starts = <<>>,
                                  !.enter = r.calls, !.exit = <<>>, !.run0 = running,
                                  !.raise = ~r.ok,
                                  !.pc = IF r.ok THEN "su_rel_umount" ELSE "su_restore"]]
             /\ syslogCache' = "False"
             /\ UNCHANGED <<datasets, bigCores, mounts>>
        ELSE /\ \E fault \in FaultChoices(SetupDatasetsFaultSpots(datasets, bigCores,
                                                                  f.scfg.pool, f.scfg.uuid)) :
                  LET r == SetupDatasets(datasets, bigCores, mounts, f.scfg.pool,
                                         f.scfg.uuid, fault) IN
                  /\ datasets' = r.datasets
                  /\ bigCores' = r.big
                  /\ mounts' = r.mounts
                  /\ faults' = faults + Cost(fault)
                  /\ tasks' = IF r.ok
                              THEN [tasks EXCEPT ![t] = [f EXCEPT !.mounted_pool = mounted_pool,
                                                                  !.pc = "su_final"]]
                              ELSE Finish(t, f, "error")
             /\ UNCHANGED <<running, syslogCache>>
  /\ UNCHANGED <<envVars, db, force_pool, scratchDir, coredump, ops>>

\* line 356: __umount(mounted_pool)
SuRelUmount(t) ==
  /\ tasks[t].pc = "su_rel_umount"
  /\ \E fault \in FaultChoices(UmountFaultSpots(mounts, tasks[t].mounted_pool,
                                                tasks[t].scfg.uuid)) :
       LET r == Umount(mounts, tasks[t].mounted_pool, tasks[t].scfg.uuid, fault) IN
       /\ mounts' = r.mounts
       /\ coredump' = FALSE
       /\ faults' = faults + Cost(fault)
       /\ tasks' = [tasks EXCEPT ![t].raise = ~r.ok,
                                 ![t].pc = IF r.ok THEN "su_rel_datasets" ELSE "su_restore"]
  /\ UNCHANGED <<envVars, db, force_pool, datasets, bigCores, scratchDir, running,
                 syslogCache, ops>>

\* line 357: __setup_datasets(config['pool'])
SuRelDatasets(t) ==
  /\ tasks[t].pc = "su_rel_datasets"
  /\ \E fault \in FaultChoices(SetupDatasetsFaultSpots(datasets, bigCores,
                                                       tasks[t].scfg.pool, tasks[t].scfg.uuid)) :
       LET r == SetupDatasets(datasets, bigCores, mounts, tasks[t].scfg.pool,
                              tasks[t].scfg.uuid, fault) IN
       /\ datasets' = r.datasets
       /\ bigCores' = r.big
       /\ mounts' = r.mounts
       /\ faults' = faults + Cost(fault)
       /\ tasks' = [tasks EXCEPT ![t].raise = ~r.ok,
                                 ![t].pc = IF r.ok THEN "su_rel_mount" ELSE "su_restore"]
  /\ UNCHANGED <<envVars, db, force_pool, scratchDir, coredump, running, syslogCache, ops>>

\* line 358: mounted = __mount(config['pool'])
SuRelMount(t) ==
  /\ tasks[t].pc = "su_rel_mount"
  /\ \E fault \in FaultChoices(MountFaultSpots(mounts, datasets, tasks[t].scfg.pool,
                                               tasks[t].scfg.uuid, SYSDATASET_PATH)) :
       LET r == Mount(mounts, datasets, tasks[t].scfg.pool, tasks[t].scfg.uuid,
                      SYSDATASET_PATH, fault) IN
       /\ mounts' = r.mounts
       /\ faults' = faults + Cost(fault)
       /\ tasks' = [tasks EXCEPT ![t].raise = ~r.ok,
                                 ![t].mounted = IF r.mounted THEN "True" ELSE "False",
                                 ![t].added = MountsAdded(mounts, r.mounts),
                                 ![t].pc = "su_restore"]
  /\ UNCHANGED <<envVars, db, force_pool, datasets, bigCores, scratchDir, coredump,
                 running, syslogCache, ops>>

\* lines 579-584 for the guard of setup
SuRestore(t) ==
  /\ tasks[t].pc = "su_restore"
  /\ \E fault \in FaultChoices(GuardFaultSpots(tasks[t].restart)) :
       LET r == GuardExit(running, tasks[t].restart, fault)
           frame == [tasks[t] EXCEPT !.restart = <<>>, !.guard = "exited",
                                     !.starts = r.starts, !.exit = r.calls]
       IN /\ running' = r.running
          /\ syslogCache' = "unset"
          /\ faults' = faults + Cost(fault)
          /\ tasks' = IF tasks[t].raise \/ ~r.ok
                      THEN Finish(t, frame, "error")
                      ELSE [tasks EXCEPT ![t] = [frame EXCEPT !.pc = "su_final"]]
  /\ UNCHANGED <<envVars, db, force_pool, datasets, bigCores, mounts, scratchDir,
                 coredump, ops>>

\* a finalization that triggers the restarts whatever was mounted
FinalTriggersAlways(mounted) ==
  {"service.restart rrdcached", "service.restart syslogd",
   "smb.setup_directories", "smb.configure"}

\* lines 377-386: `if mounted:` the calls made at the end of a pass
FinalTriggers(mounted) ==
  IF mounted
  THEN {"service.restart rrdcached", "service.restart syslogd",
        "smb.setup_directories", "smb.configure"}
  ELSE {}

\* lines 362-388: mount what is not mounted, bind the core path, restart the
\* services that read the dataset when anything was mounted
SuFinal(t) ==
  /\ tasks[t].pc = "su_final"
  /\ LET f == tasks[t]
         spots == IF f.mounted = None
                  THEN MountFaultSpots(mounts, datasets, f.scfg.pool, f.scfg.uuid, SYSDATASET_PATH)
                  ELSE {}
     IN \E fault \in FaultChoices(spots) :
          LET r == IF f.mounted = None
                   THEN Mount(mounts, datasets, f.scfg.pool, f.scfg.uuid, SYSDATASET_PATH, fault)
                   ELSE [mounts |-> mounts, ok |-> TRUE, mounted |-> f.mounted = "True"]
              done == [f EXCEPT !.mounted = IF r.mounted THEN "True" ELSE "False",
                                !.added = @ \o MountsAdded(mounts, r.mounts),
                                !.triggers = FinalTriggers(r.mounted),
                                !.ret = ConfigExtend(db, force_pool, nodeB, r.mounts, Empty)]
          IN /\ mounts' = r.mounts
             /\ faults' = faults + Cost(fault)
             /\ IF r.ok
                THEN /\ coredump' = (coredump \/ IsMount(r.mounts, MountPoint(SYSDATASET_PATH, RootLabel)))
                     /\ running' = IF "service.restart rrdcached" \in FinalTriggers(r.mounted)
                                   THEN running \cup {"rrdcached", "syslogd"}
                                   ELSE running
                     /\ tasks' = AfterSetup(t, done)
                ELSE /\ UNCHANGED <<coredump, running>>
                     /\ tasks' = Finish(t, f, "error")
  /\ UNCHANGED <<envVars, db, force_pool, datasets, bigCores, scratchDir, syslogCache, ops>>

\* do_update lines 232-242: restart syslogd when the syslog flag changed;
\* return await self.config()
UpdTail(t) ==
  /\ tasks[t].pc = "upd_tail"
  /\ running' = IF tasks[t].cfg.syslog # db.syslog THEN running \cup {"syslogd"} ELSE running
  /\ tasks' = Finish(t, [tasks[t] EXCEPT !.ret = ConfigExtend(db, force_pool, nodeB,
                                                               mounts, Empty)], "ok")
  /\ UNCHANGED <<envVars, db, force_pool, datasets, bigCores, mounts, scratchDir,
                 coredump, syslogCache, ops, faults>>

\* a direct call of systemdataset.setup (pool hooks, boot)
CallSetup(t) ==
  /\ ops < MaxOps
  /\ Idle
  /\ FreeSlot(t)
  /\ tasks' = [tasks EXCEPT ![t] = [FreeFrame EXCEPT !.kind = "setup", !.pc = "su_start",
                                                     !.db0 = db, !.sys0 = Snapshot,
                                                     !.calls = 1]]
  /\ ops' = ops + 1
  /\ UNCHANGED <<envVars, sysVars, faults>>

\* systemdataset.setup called again right after a call of it has returned
CallSetupAgain(t) ==
  /\ ops < MaxOps
  /\ tasks[t].kind = "setup" /\ tasks[t].pc = "done" /\ tasks[t].result = "ok"
  /\ tasks[t].calls = 1
  /\ \A u \in TaskIds \ {t} : tasks[u].kind = "free"
  /\ tasks' = [tasks EXCEPT ![t] =
        [FreeFrame EXCEPT !.kind = "setup", !.pc = "su_start",
                          !.db0 = db, !.sys0 = Snapshot, !.calls = 2,
                          !.first = ConfigExtend(db, force_pool, nodeB, mounts, Empty)]]
  /\ ops' = ops + 1
  /\ UNCHANGED <<envVars, sysVars, faults>>

\* the pool.pre_export hook is called for a data pool
CallPreExport(t, pool) ==
  /\ ops < MaxOps
  /\ Idle
  /\ FreeSlot(t)
  /\ tasks' = [tasks EXCEPT ![t] =
        [FreeFrame EXCEPT !.kind = "pre_export", !.pc = "hook_start",
                          !.data = [NoData EXCEPT !.pool = pool],
                          !.db0 = db, !.sys0 = Snapshot]]
  /\ ops' = ops + 1
  /\ UNCHANGED <<envVars, sysVars, faults>>

\* pool_pre_export: read the configuration; when the system dataset is on the
\* pool, submit update({'pool': None, 'pool_exclude': pool}) and wait for it
PreExport(t) ==
  /\ tasks[t].kind = "pre_export"
  /\ tasks[t].pc = "hook_start"
  /\ \E newid \in UuidDraws(db, nodeB) :
       LET f == tasks[t]
           sysds == ConfigExtend(db, force_pool, nodeB, mounts, newid)
           stored == ConfigStore(db, nodeB, newid)
           seen == [f EXCEPT !.scfg = [NoCfg EXCEPT !.pool = sysds.pool,
                                                    !.pool_set = sysds.pool_set,
                                                    !.uuid = sysds.uuid]]
       IN /\ db' = stored
          /\ IF sysds.pool = f.data.pool
             THEN \E c \in TaskIds :
                    /\ FreeSlot(c)
                    /\ tasks' = SubmitChild(tasks, t, seen, c,
                                   [NoData EXCEPT !.pool = None, !.exclude = f.data.pool],
                                   stored)
             ELSE tasks' = Finish(t, seen, "ok")
  /\ UNCHANGED <<envVars, force_pool, datasets, bigCores, mounts, scratchDir, coredump,
                 running, syslogCache, ops, faults>>

\* pool.create / pool.import_pool has made the pool available and runs the
\* hooks registered for it (lines 626-628)
PoolArrives(t, pool, hook) ==
  /\ ops < MaxOps
  /\ FreeSlot(t)
  /\ pool \notin imported
  /\ imported' = imported \cup {pool}
  /\ tasks' = [tasks EXCEPT ![t] =
        [FreeFrame EXCEPT !.kind = hook, !.pc = "hook_start", !.hook = hook,
                          !.data = [NoData EXCEPT !.pool = pool],
                          !.db0 = db, !.sys0 = Snapshot]]
  /\ ops' = ops + 1
  /\ UNCHANGED <<rootState, avail, used, nodeB, sysVars, faults>>

\* a pool-created hook that calls setup wherever the system dataset is
PostCreateCallsAlways(sysds) == TRUE

\* line 588: sysds['pool'] == boot.pool_name
PostCreateCalls(sysds) == sysds.pool = BootPool

\* lines 592-596: the pool-imported hook calls setup
PostImportCalls == TRUE

\* the frame of a hook that goes into systemdataset.setup, or returns
HookSetup(t, frame, calls) ==
  IF calls
  THEN [tasks EXCEPT ![t] = [frame EXCEPT !.kind = "setup", !.pc = "su_start",
                                          !.invoked = TRUE, !.calls = 1,
                                          !.db0 = db', !.sys0 = Snapshot]]
  ELSE Finish(t, frame, "ok")

\* pool_post_create (lines 587-589)
PostCreate(t) ==
  /\ tasks[t].kind = "post_create"
  /\ tasks[t].pc = "hook_start"
  /\ \E newid \in UuidDraws(db, nodeB) :
       LET sysds == ConfigExtend(db, force_pool, nodeB, mounts, newid) IN
       /\ db' = ConfigStore(db, nodeB, newid)
       /\ tasks' = HookSetup(t, [tasks[t] EXCEPT !.first = sysds], PostCreateCalls(sysds))
  /\ UNCHANGED <<envVars, force_pool, datasets, bigCores, mounts, scratchDir, coredump,
                 running, syslogCache, ops, faults>>

\* pool_post_import (lines 592-596)
PostImport(t) ==
  /\ tasks[t].kind = "post_import"
  /\ tasks[t].pc = "hook_start"
  /\ db' = db
  /\ tasks' = HookSetup(t, tasks[t], PostImportCalls)
  /\ UNCHANGED <<envVars, force_pool, datasets, bigCores, mounts, scratchDir, coredump,
                 running, syslogCache, ops, faults>>

\* systemdataset.config: a configuration read; config_extend generates and
\* stores the local identifier when it is empty
CallConfig(t) ==
  /\ ops < MaxOps
  /\ Idle
  /\ FreeSlot(t)
  /\ \E newid \in UuidDraws(db, nodeB) :
       /\ db' = ConfigStore(db, nodeB, newid)
       /\ tasks' = [tasks EXCEPT ![t] =
             [FreeFrame EXCEPT !.kind = "config", !.pc = "done", !.result = "ok",
                               !.db0 = db, !.sys0 = Snapshot,
                               !.ret = ConfigExtend(db, force_pool, nodeB, mounts, newid)]]
  /\ ops' = ops + 1
  /\ UNCHANGED <<envVars, force_pool, datasets, bigCores, mounts, scratchDir, coredump,
                 running, syslogCache, faults>>

(***************************************************************************)
(* Direct calls of the private methods destination_pool_error and         *)
(* _query_pool_for_system_dataset: the frame keeps the argument and the    *)
(* value returned.                                                         *)
(***************************************************************************)
\* middleware.call('systemdataset.destination_pool_error', new_pool)
CallDestinationPoolError(t, new_pool) ==
  /\ ops < MaxOps
  /\ Idle
  /\ FreeSlot(t)
  /\ tasks' = [tasks EXCEPT ![t] =
        [FreeFrame EXCEPT !.kind = "destination_pool_error", !.pc = "done",
                          !.data = [NoData EXCEPT !.pool = new_pool],
                          !.result = DestinationError(Env, EffectivePool(db.pool, force_pool),
                                                      new_pool)]]
  /\ ops' = ops + 1
  /\ UNCHANGED <<envVars, sysVars, faults>>

\* self._query_pool_for_system_dataset(exclude_pool)
CallQueryPool(t, exclude_pool) ==
  /\ ops < MaxOps
  /\ Idle
  /\ FreeSlot(t)
  /\ tasks' = [tasks EXCEPT ![t] =
        [FreeFrame EXCEPT !.kind = "query_pool", !.pc = "done",
                          !.data = [NoData EXCEPT !.exclude = exclude_pool],
                          !.pick = QueryPoolForSystemDataset(Env, exclude_pool)]]
  /\ ops' = ops + 1
  /\ UNCHANGED <<envVars, sysVars, faults>>

(***************************************************************************)
(* Direct calls of __mount and __umount: the frame keeps the arguments,   *)
(* the table found, the mount commands that mounted something (`issued`), *)
(* the value returned and the umount commands run (`umounts`).            *)
(***************************************************************************)
\* await self.__mount(pool, uuid, path)
CallMount(t, pool, path) ==
  /\ ops < MaxOps
  /\ Idle
  /\ FreeSlot(t)
  /\ \E fault \in FaultChoices(MountFaultSpots(mounts, datasets, pool, MyUuid, path)) :
       LET r == Mount(mounts, datasets, pool, MyUuid, path, fault) IN
         /\ mounts' = r.mounts
         /\ faults' = faults + Cost(fault)
         /\ tasks' = [tasks EXCEPT ![t] =
               [FreeFrame EXCEPT !.kind = "mount", !.pc = "done",
                                 !.data = [NoData EXCEPT !.pool = pool],
                                 !.path = path, !.calls = 1, !.sys0 = Snapshot,
                                 !.issued = MountsAdded(mounts, r.mounts),
                                 !.mounted = IF r.mounted THEN "True" ELSE "False",
                                 !.result = IF r.ok THEN "ok" ELSE "error"]]
  /\ ops' = ops + 1
  /\ UNCHANGED <<envVars, db, force_pool, datasets, bigCores, scratchDir, coredump,
                 running, syslogCache>>

\* the same call once more, right after the first has returned
CallMountAgain(t) ==
  /\ ops < MaxOps
  /\ tasks[t].kind = "mount" /\ tasks[t].calls = 1 /\ tasks[t].result = "ok"
  /\ LET f == tasks[t]
         r == Mount(mounts, datasets, f.data.pool, MyUuid, f.path, 0) IN
       /\ mounts' = r.mounts
       /\ tasks' = [tasks EXCEPT ![t] =
             [f EXCEPT !.calls = 2, !.sys0 = Snapshot,
                       !.issued = MountsAdded(mounts, r.mounts),
                       !.mounted = IF r.mounted THEN "True" ELSE "False",
                       !.result = IF r.ok THEN "ok" ELSE "error"]]
  /\ ops' = ops + 1
  /\ UNCHANGED <<envVars, db, force_pool, datasets, bigCores, scratchDir, coredump,
                 running, syslogCache, faults>>

\* await self.__umount(pool, uuid) for the pool just mounted
CallUmount(t) ==
  /\ ops < MaxOps
  /\ tasks[t].kind = "mount" /\ tasks[t].result = "ok"
  /\ LET f == tasks[t] IN
     \E fault \in FaultChoices(UmountFaultSpots(mounts, f.data.pool, MyUuid)) :
     \E stderr \in IF fault = 0 THEN {""} ELSE {TargetBusy, OtherFailure} :
       LET r == Umount(mounts, f.data.pool, MyUuid, fault) IN
         /\ mounts' = r.mounts
         /\ faults' = faults + Cost(fault)
         /\ tasks' = [tasks EXCEPT ![t] =
               [f EXCEPT !.kind = "mount_umount",
                         !.mig0 = Snapshot,
                         !.umounts = [i \in 1..Len(r.issued) |-> r.issued[i].dataset],
                         !.stderr = stderr,
                         !.error = IF r.ok THEN f.error
                                   ELSE UmountError(mounts, r.issued[Len(r.issued)].dataset,
                                                    stderr),
                         !.result = IF r.ok THEN "ok" ELSE "error"]]
  /\ coredump' = FALSE
  /\ ops' = ops + 1
  /\ UNCHANGED <<envVars, db, force_pool, datasets, bigCores, scratchDir,
                 running, syslogCache>>

\* await self.__umount(pool, uuid) on the table as it is
CallUmountPool(t, pool) ==
  /\ ops < MaxOps
  /\ Idle
  /\ FreeSlot(t)
  /\ \E fault \in FaultChoices(UmountFaultSpots(mounts, pool, MyUuid)) :
     \E stderr \in IF fault = 0 THEN {""} ELSE {TargetBusy, OtherFailure} :
       LET r == Umount(mounts, pool, MyUuid, fault) IN
         /\ mounts' = r.mounts
         /\ faults' = faults + Cost(fault)
         /\ tasks' = [tasks EXCEPT ![t] =
               [FreeFrame EXCEPT !.kind = "mount_umount", !.pc = "done",
                                 !.data = [NoData EXCEPT !.pool = pool],
                                 !.mig0 = Snapshot,
                                 !.umounts = [i \in 1..Len(r.issued) |-> r.issued[i].dataset],
                                 !.stderr = stderr,
                                 !.error = IF r.ok THEN FreeFrame.error
                                           ELSE UmountError(mounts,
                                                            r.issued[Len(r.issued)].dataset,
                                                            stderr),
                                 !.result = IF r.ok THEN "ok" ELSE "error"]]
  /\ coredump' = FALSE
  /\ ops' = ops + 1
  /\ UNCHANGED <<envVars, db, force_pool, datasets, bigCores, scratchDir,
                 running, syslogCache>>

\* self.__get_datasets(pool, uuid)
CallGetDatasets(t, pool, uuid) ==
  /\ ops < MaxOps
  /\ FreeSlot(t)
  /\ \A u \in TaskIds : tasks[u].kind \in {"free", "get_datasets"}
  /\ tasks' = [tasks EXCEPT ![t] =
        [FreeFrame EXCEPT !.kind = "get_datasets", !.pc = "done",
                          !.data = [NoData EXCEPT !.pool = pool],
                          !.cfg = [NoCfg EXCEPT !.uuid = uuid],
                          !.listing = GetDatasets(pool, uuid)]]
  /\ ops' = ops + 1
  /\ UNCHANGED <<envVars, sysVars, faults>>

\* the mount tables of the direct calls: nothing, a part or all of a pool's
\* datasets mounted at the stable path
TableDraws ==
  {SubSeq(MountAll(p, InitUuid, SYSDATASET_PATH), 1, n) :
      p \in {BootPool, "tank"}, n \in {0, 1, 2, Len(ChildLabels(InitUuid)) + 1}}

\* the sizes drawn for the direct calls
MaxUsed == 24
MaxAvail == 28
\* 1024 ** 3
GiB == 1073741824

SizeDraws ==
  {[used |-> u, avail |-> a] : u \in 0..MaxUsed, a \in 0..MaxAvail}
  \cup {[used |-> GiB, avail |-> a] :
          a \in {GiB \div 2, GiB, Inflate(GiB) - 1, Inflate(GiB), GiB + (GiB - 1)}}

\* the environments of the direct calls: every size with both pools usable,
\* and every set of imported pools and root states with the sizes of Init
InitCalls ==
  /\ \/ /\ imported \in {DataPools, {"tank"}}
        /\ rootState = [q \in DataPools |-> "ok"]
        /\ \E z \in SizeDraws : used = z.used /\ avail = [q \in AllPools |-> z.avail]
        /\ datasets \in {{}, DatasetSet(BootPool, InitUuid)}
     \/ /\ imported \in SUBSET DataPools
        /\ rootState \in [DataPools -> {"ok", "pass", "locked"}]
        /\ used = UsedBytes
        /\ avail = [q \in AllPools |-> AvailHigh]
        /\ datasets = DatasetSet(BootPool, InitUuid)
  /\ nodeB = FALSE
  /\ db = [pool |-> Empty, syslog |-> FALSE, uuid |-> InitUuid, uuid_b |-> Empty]
  /\ bigCores = {}
  /\ mounts = IF datasets = {} THEN <<>> ELSE MountAll(BootPool, InitUuid, SYSDATASET_PATH)
  /\ force_pool = Empty
  /\ scratchDir = FALSE
  /\ coredump = TRUE
  /\ running = BaseServices \cup {"cifs", "glusterd"}
  /\ syslogCache = "unset"
  /\ tasks = [t \in TaskIds |-> FreeFrame]
  /\ ops = 0
  /\ faults = 0

NextCalls ==
  \/ \E t \in TaskIds, new_pool \in DataPools : CallDestinationPoolError(t, new_pool)
  \/ \E t \in TaskIds, exclude_pool \in DataPools \cup {None} : CallQueryPool(t, exclude_pool)
  \/ \E t \in TaskIds : Reap(t)

SpecCalls == InitCalls /\ [][NextCalls]_vars

\* the direct calls of __mount, __umount and __get_datasets: the datasets of
\* the boot pool exist, those of tank exist or not, and the table is drawn
InitTree ==
  /\ imported = DataPools
  /\ rootState = [q \in DataPools |-> "ok"]
  /\ used = UsedBytes
  /\ avail = [q \in AllPools |-> AvailHigh]
  /\ nodeB = FALSE
  /\ db = [pool |-> Empty, syslog |-> FALSE, uuid |-> InitUuid, uuid_b |-> Empty]
  /\ datasets \in {DatasetSet(BootPool, InitUuid) \cup DatasetSet("tank", InitUuid),
                    DatasetSet(BootPool, InitUuid)}
  /\ bigCores = {}
  /\ mounts \in TableDraws
  /\ \A i \in 1..Len(mounts) : mounts[i].dev \in datasets
  /\ force_pool = Empty
  /\ scratchDir = FALSE
  /\ coredump = TRUE
  /\ running = BaseServices
  /\ syslogCache = "unset"
  /\ tasks = [t \in TaskIds |-> FreeFrame]
  /\ ops = 0
  /\ faults = 0

NextTree ==
  \/ \E t \in TaskIds, pool \in {BootPool, "tank"}, path \in {SYSDATASET_PATH, ScratchPath} :
        CallMount(t, pool, path)
  \/ \E t \in TaskIds : CallMountAgain(t)
  \/ \E t \in TaskIds : CallUmount(t)
  \/ \E t \in TaskIds, pool \in {BootPool, "tank"} : CallUmountPool(t, pool)
  \/ \E t \in TaskIds, pool \in AllPools, uuid \in UUIDs \cup {InitUuid} :
        CallGetDatasets(t, pool, uuid)
  \/ \E t \in TaskIds : Reap(t)

SpecTree == InitTree /\ [][NextTree]_vars

Next ==
  \/ \E t \in TaskIds, data \in UpdateInputs : SubmitUpdate(t, data)
  \/ \E t \in TaskIds : CallSetup(t)
  \/ \E t \in TaskIds : CallSetupAgain(t)
  \/ \E t \in TaskIds, pool \in DataPools : CallPreExport(t, pool)
  \/ \E t \in TaskIds : PreExport(t)
  \/ \E t \in TaskIds : StartJob(t)
  \/ \E t \in TaskIds : Reap(t)
  \/ \E t \in TaskIds : Validate(t)
  \/ \E t \in TaskIds : Persist(t)
  \/ \E t \in TaskIds : MigDatasets(t)
  \/ \E t \in TaskIds : MigMount(t)
  \/ \E t \in TaskIds : MigRelease(t)
  \/ \E t \in TaskIds : MigCopy(t)
  \/ \E t \in TaskIds : MigUmountFrom(t)
  \/ \E t \in TaskIds : MigUmountTo(t)
  \/ \E t \in TaskIds : MigRemount(t)
  \/ \E t \in TaskIds : MigDestroy(t)
  \/ \E t \in TaskIds : MigRmdir(t)
  \/ \E t \in TaskIds : MigRestore(t)
  \/ \E t \in TaskIds : SuStart(t)
  \/ \E t \in TaskIds : SuWait(t)
  \/ \E t \in TaskIds : SuSwitch(t)
  \/ \E t \in TaskIds : SuRelUmount(t)
  \/ \E t \in TaskIds : SuRelDatasets(t)
  \/ \E t \in TaskIds : SuRelMount(t)
  \/ \E t \in TaskIds : SuRestore(t)
  \/ \E t \in TaskIds : SuFinal(t)
  \/ \E t \in TaskIds : UpdTail(t)

Spec == Init /\ [][Next]_vars

(***************************************************************************)
(* Concurrent API calls: a system set up on the boot pool or on tank, all *)
(* pools usable, and updates that may be submitted while another is       *)
(* queued.                                                                 *)
(***************************************************************************)
InitJobs ==
  /\ Init
  /\ imported = DataPools
  /\ rootState = [q \in DataPools |-> "ok"]
  /\ avail = [q \in AllPools |-> AvailHigh]
  /\ bigCores = {}
  /\ db.uuid = InitUuid

NextJobs ==
  \/ \E t \in TaskIds, data \in ConcurrentInputs : SubmitConcurrentUpdate(t, data)
  \/ Next

SpecJobs == InitJobs /\ [][NextJobs]_vars

(***************************************************************************)
(* A pool whose root dataset gets locked and unlocked: the dataset is on  *)
(* tank, or tank is stored but locked and an earlier setup pass has       *)
(* forced the boot pool, or no pool is stored; between operations the     *)
(* root dataset of tank may be locked or unlocked and the configuration   *)
(* may be read.                                                            *)
(***************************************************************************)
\* the root dataset of a data pool is locked or unlocked from outside
SetRootState(pool, s) ==
  /\ ops < MaxOps
  /\ Idle
  /\ rootState[pool] # s
  /\ rootState' = [rootState EXCEPT ![pool] = s]
  /\ ops' = ops + 1
  /\ UNCHANGED <<imported, avail, used, nodeB, sysVars, tasks, faults>>

InitForce ==
  /\ imported = DataPools
  /\ rootState \in {[q \in DataPools |-> IF q = "tank" THEN s ELSE "ok"] : s \in {"ok", "locked"}}
  /\ avail = [q \in AllPools |-> AvailHigh]
  /\ used = UsedBytes
  /\ nodeB = FALSE
  /\ db \in {[pool |-> sp, syslog |-> FALSE, uuid |-> InitUuid, uuid_b |-> Empty] :
               sp \in {Empty, "tank"}}
  /\ force_pool = IF db.pool = "tank" /\ rootState["tank"] = "locked" THEN BootPool ELSE Empty
  /\ datasets = DatasetSet(EffectivePool(db.pool, force_pool), InitUuid)
  /\ bigCores = {}
  /\ mounts = MountAll(EffectivePool(db.pool, force_pool), InitUuid, SYSDATASET_PATH)
  /\ scratchDir = FALSE
  /\ coredump = TRUE
  /\ running = BaseServices
  /\ syslogCache = "unset"
  /\ tasks = [t \in TaskIds |-> FreeFrame]
  /\ ops = 0
  /\ faults = 0

NextForce ==
  \/ \E s \in {"ok", "locked"} : SetRootState("tank", s)
  \/ \E t \in TaskIds : CallConfig(t)
  \/ Next

SpecForce == InitForce /\ [][NextForce]_vars

(***************************************************************************)
(* A paired system: the operations run on node A or on node B, the        *)
(* secondary identifier is set or empty, the dataset of node A's          *)
(* identifier is set up on the boot pool, and the configuration may be    *)
(* read.                                                                   *)
(***************************************************************************)
PeerUuid == "b0"

InitPair ==
  /\ imported = DataPools
  /\ rootState = [q \in DataPools |-> "ok"]
  /\ avail = [q \in AllPools |-> AvailHigh]
  /\ used = UsedBytes
  /\ nodeB \in BOOLEAN
  /\ db \in {[pool |-> sp, syslog |-> FALSE, uuid |-> InitUuid, uuid_b |-> ub] :
               sp \in {Empty, "tank"}, ub \in {Empty, PeerUuid}}
  /\ datasets = DatasetSet(EffectivePool(db.pool, Empty), InitUuid)
  /\ bigCores = {}
  /\ mounts = MountAll(EffectivePool(db.pool, Empty), InitUuid, SYSDATASET_PATH)
  /\ force_pool = Empty
  /\ scratchDir = FALSE
  /\ coredump = TRUE
  /\ running = BaseServices
  /\ syslogCache = "unset"
  /\ tasks = [t \in TaskIds |-> FreeFrame]
  /\ ops = 0
  /\ faults = 0

NextPair ==
  \/ \E t \in TaskIds : CallConfig(t)
  \/ Next

SpecPair == InitPair /\ [][NextPair]_vars

(***************************************************************************)
(* Properties.                                                             *)
(***************************************************************************)
\* every topology dataset of the pool is mounted at its mountpoint under path
AllMountedAt(m, pool, uuid, path) ==
  \A i \in 1..Len(GetDatasets(pool, uuid)) :
     [mp |-> MountPoint(path, GetDatasets(pool, uuid)[i].name),
      dev |-> GetDatasets(pool, uuid)[i].dataset] \in MountSet(m, path)

\* the mounts under path are those of the pool's topology and no other
ExactlyMountedAt(m, pool, uuid, path) ==
  MountSet(m, path) = {MountAll(pool, uuid, path)[i] :
                         i \in 1..Len(GetDatasets(pool, uuid))}

\* the migrate of frame t had a previous pool, its copy failed, and it ended
CopyFailed(t) ==
  /\ tasks[t].kind = "update"
  /\ tasks[t].pc = "done"
  /\ Truthy(tasks[t].from)
  /\ tasks[t].copy = "failed"

\* the migrate of frame t returned to do_update without an exception
MigrateReturned(t) ==
  /\ tasks[t].kind = "update"
  /\ tasks[t].pc = "su_start"
  /\ tasks[t].copy = "ok"

\* C1: if the copy step of migrate(oldPool, newPool) fails (oldPool
\* non-empty, its datasets mounted at the stable path when migrate started),
\* then when migrate ends the old pool's datasets are all still mounted at
\* /var/db/system, the new pool's datasets are mounted at the scratch path,
\* and no dataset of either pool has been destroyed.
C1_CopyFailureKeepsAll ==
  \A t \in TaskIds :
     (CopyFailed(t)
        /\ AllMountedAt(tasks[t].mig0.mounts, tasks[t].from, MyUuid, SYSDATASET_PATH))
     => /\ AllMountedAt(mounts, tasks[t].from, MyUuid, SYSDATASET_PATH)
        /\ AllMountedAt(mounts, tasks[t].to, MyUuid, ScratchPath)
        /\ {d \in tasks[t].gone : d.pool \in {tasks[t].from, tasks[t].to}} = {}

\* C2: after migrate(oldPool, newPool) completes successfully the datasets
\* mounted at the stable path are exactly the topology datasets of newPool,
\* nothing is left at the scratch path, and no dataset of oldPool's .system
\* subtree exists.
C2_MigrateSwitches ==
  \A t \in TaskIds :
     MigrateReturned(t)
     => /\ ExactlyMountedAt(mounts, tasks[t].to, MyUuid, SYSDATASET_PATH)
        /\ MountsUnder(mounts, ScratchPath) = <<>>
        /\ \A d \in datasets : d.pool # tasks[t].from

\* C3: in a migrate with a previous pool, a destructive step (the unmount
\* of the old pool's datasets, the unmount of the scratch mount, the destroy
\* of the old pool's .system subtree) has been taken only if the copy
\* returned success; while the copy has not succeeded every mount the old
\* pool had at the stable path and every dataset it had when migrate
\* started is still there.
C3_DestructiveAfterCopy ==
  \A t \in TaskIds :
     /\ tasks[t].did # {} => tasks[t].copy = "ok"
     /\ (Truthy(tasks[t].from) /\ tasks[t].copy # "ok" /\ tasks[t].pc # "mig_datasets")
        => /\ {e \in MountSet(tasks[t].mig0.mounts, SYSDATASET_PATH) :
                  e.dev.pool = tasks[t].from} \subseteq MountSet(mounts, SYSDATASET_PATH)
           /\ {d \in tasks[t].mig0.datasets : d.pool = tasks[t].from} \subseteq datasets

\* a migrate copied successfully and took the three destructive steps
C3_Witness ==
  \E t \in TaskIds :
     /\ tasks[t].copy = "ok"
     /\ tasks[t].did = {"umount_from", "umount_to", "destroy"}
     /\ \A d \in datasets : d.pool # tasks[t].from

\* C4: when an update fails because the migration copy failed, the stored
\* pool is as it was before the update, so that the configuration still
\* resolves to the old pool and the same update, issued again, migrates
\* again from the original state.
C4_CopyFailureKeepsRecord ==
  \A t \in TaskIds :
     CopyFailed(t)
     => /\ db.pool = tasks[t].db0.pool
        /\ EffectivePool(db.pool, force_pool) = tasks[t].from

\* the update of frame t found validation errors
Rejected(t) == tasks[t].kind = "update" /\ tasks[t].verrs # {}

\* the update of frame t ended with the validation errors raised
ValidationFailed(t) ==
  /\ Rejected(t)
  /\ tasks[t].pc = "done"
  /\ tasks[t].result = "verror"

\* C5 as stated: whenever update fails with a validation error the persisted
\* configuration record is unchanged and no dataset, mount, copy or service
\* has been touched by that update.
C5_NoMutation ==
  \A t \in TaskIds :
     ValidationFailed(t) => db = tasks[t].db0 /\ Snapshot = tasks[t].sys0

\* C5: an update that finds a validation error raises it before any
\* mutation other than the configuration read's: the stored pool and syslog
\* flag are unchanged, a node identifier that was set is unchanged (one that
\* was empty may have been generated and stored by the read), and no
\* dataset, mount, copy or service has been touched by that update.
C5_OnlyIdentifierWritten ==
  \A t \in TaskIds :
     Rejected(t)
     => /\ ValidationFailed(t)
        /\ db.pool = tasks[t].db0.pool
        /\ db.syslog = tasks[t].db0.syslog
        /\ Truthy(tasks[t].db0.uuid) => db.uuid = tasks[t].db0.uuid
        /\ Truthy(tasks[t].db0.uuid_b) => db.uuid_b = tasks[t].db0.uuid_b
        /\ ~nodeB => db.uuid_b = tasks[t].db0.uuid_b
        /\ Snapshot = tasks[t].sys0
        /\ tasks[t].copy = "none" /\ tasks[t].did = {} /\ tasks[t].gone = {}

\* an update of a system without an identifier failed validation
C5_Witness ==
  \E t \in TaskIds :
     /\ ValidationFailed(t)
     /\ ~Truthy(tasks[t].db0.uuid)
     /\ Truthy(db.uuid)

\* the pool an update asks for: data's when given, else the configured one
Desired(t) ==
  IF tasks[t].data.pool = Unspec THEN tasks[t].cfg.pool ELSE tasks[t].data.pool

\* the update of frame t has been validated and nothing ran after that
JustValidated(t) ==
  /\ tasks[t].kind = "update"
  /\ \/ tasks[t].pc = "persist"
     \/ tasks[t].pc = "done" /\ tasks[t].result = "verror"

\* C6: an update whose desired pool differs from the effective pool is
\* rejected with the policy error whenever the system is ready and the
\* directory service state is HEALTHY or FAULTED; an update whose desired
\* pool equals the effective pool never gets the policy error.
C6_DirectoryPolicy ==
  \A t \in TaskIds :
     JustValidated(t)
     => /\ (Desired(t) # tasks[t].cfg.pool /\ tasks[t].obs.ready
              /\ tasks[t].obs.ad \in {"HEALTHY", "FAULTED"})
           => (ValidationFailed(t) /\ ErrPolicy \in tasks[t].verrs)
        /\ Desired(t) = tasks[t].cfg.pool => ErrPolicy \notin tasks[t].verrs

\* a relocation was rejected by the policy alone, the directory service FAULTED
C6_Witness ==
  \E t \in TaskIds :
     /\ ValidationFailed(t)
     /\ tasks[t].verrs = {ErrPolicy}
     /\ tasks[t].obs.ad = "FAULTED"
     /\ tasks[t].data.pool \in DataPools

\* the frames of direct calls of destination_pool_error
FeasibilityCalls == {t \in TaskIds : tasks[t].kind = "destination_pool_error"}

\* C7: destination_pool_error returns no error when no system dataset
\* exists; otherwise the not-found error when the destination pool's
\* dataset is absent; otherwise the insufficient-space error exactly when
\* eleven tenths of the used bytes, truncated, exceed the available bytes
\* (required r is the integer with 10 r <= 11 used < 10 (r + 1), so r exceeds
\* a exactly when 10 (a + 1) <= 11 used).  With 1 GiB used: half a GiB
\* available fails, 1181116005 bytes fail, 1181116006 bytes and the largest
\* size below 2 GiB pass.
C7_Feasibility ==
  \A t \in FeasibilityCalls :
     LET p == tasks[t].data.pool
         r == tasks[t].result
         existing == Dataset(EffectivePool(db.pool, force_pool), RootLabel) \in datasets
         present == p = BootPool \/ p \in imported
     IN /\ ~existing => r = NoError
        /\ (existing /\ ~present) => r = ErrNoDataset
        /\ (existing /\ present) => r \in {NoError, ErrNoSpace}
        /\ (existing /\ present /\ used # GiB)
           => (r = ErrNoSpace <=> 10 * (avail[p] + 1) <= 11 * used)
        /\ (existing /\ present /\ used = GiB)
           => /\ r = ErrNoSpace <=> avail[p] < 1181116006
              /\ avail[p] = GiB \div 2 => r = ErrNoSpace
              /\ avail[p] = GiB + (GiB - 1) => r = NoError

\* 1 GiB used and half a GiB available: insufficient space
C7_Witness ==
  \E t \in FeasibilityCalls :
     /\ used = GiB
     /\ avail[tasks[t].data.pool] = GiB \div 2
     /\ tasks[t].result = ErrNoSpace

\* the place of a pool in discovery order
PosOf(p) == CHOOSE i \in 1..Len(PoolOrder) : PoolOrder[i] = p

\* pool p passes what automatic selection asks of a candidate, for the
\* update of frame t at the time it was validated
Eligible(t, p) ==
  /\ p \in imported
  /\ p # tasks[t].data.exclude
  /\ rootState[p] = "ok"
  /\ Dataset(tasks[t].cfg.pool, RootLabel) \in datasets
       => 11 * used < 10 * (avail[p] + 1)

MigratePcs ==
  {"mig_datasets", "mig_mount", "mig_release", "mig_copy", "mig_umount_from",
   "mig_umount_to", "mig_remount", "mig_destroy", "mig_rmdir", "mig_restore"}

\* C8: an update called with pool None that passes validation selects the
\* first pool in discovery order that is not the excluded pool, whose root
\* dataset is neither passphrase-encrypted nor locked, and that passes the
\* feasibility check (the empty pool when there is none), and that is the
\* pool it stores.
C8_AutoSelection ==
  \A t \in TaskIds :
     (tasks[t].kind = "update" /\ tasks[t].data.pool = None /\ tasks[t].verrs = {})
     => /\ tasks[t].pc = "persist"
           => LET sel == tasks[t].new_pool IN
              /\ sel # Empty
                 => /\ sel \in DataPools
                    /\ Eligible(t, sel)
                    /\ \A q \in DataPools : PosOf(q) < PosOf(sel) => ~Eligible(t, q)
              /\ sel = Empty => \A q \in DataPools : ~Eligible(t, q)
        /\ tasks[t].pc \in MigratePcs \cup {"su_start"} => db.pool = tasks[t].new_pool

\* automatic selection passed over tank, which lacks the space, and backup
\* was stored
C8_Witness ==
  \E t \in TaskIds :
     /\ tasks[t].kind = "update"
     /\ tasks[t].data.pool = None
     /\ tasks[t].data.exclude = None
     /\ tasks[t].pc = "mig_datasets"
     /\ rootState["tank"] = "ok"
     /\ avail["tank"] = AvailLow
     /\ db.pool = "backup"

\* the update of frame t was called with pool None and every candidate was
\* skipped
Exhausted(t) ==
  /\ tasks[t].kind = "update"
  /\ tasks[t].data.pool = None
  /\ tasks[t].verrs = {}
  /\ tasks[t].new_pool = Empty
  /\ tasks[t].pc \notin {"queued", "validate"}

\* the update of frame t holds the lock and waits for a job that needs it
WaitsForItsOwnLock(t) ==
  /\ HoldsLock(t)
  /\ tasks[t].pc = "su_wait"
  /\ tasks[tasks[t].child].pc = "queued"

\* C9: an update called with pool None whose candidates are all skipped
\* stores the empty pool and completes: it never ends up waiting for a job
\* that cannot start, and when no external command failed it ends without
\* an error.
C9_ExhaustionCompletes ==
  \A t \in TaskIds :
     Exhausted(t)
     => /\ tasks[t].pc = "persist" \/ db.pool = Empty
        /\ ~WaitsForItsOwnLock(t)
        /\ (tasks[t].pc = "done" /\ faults = 0) => tasks[t].result = "ok"

\* the frames of direct calls of _query_pool_for_system_dataset
QueryCalls == {t \in TaskIds : tasks[t].kind = "query_pool"}

\* pool p may be picked for a call that excludes x
Pickable(p, x) == p \in imported /\ p # x /\ rootState[p] = "ok"

\* C10: _query_pool_for_system_dataset returns neither the excluded pool nor
\* a pool whose root dataset is passphrase-encrypted or locked; it returns
\* the first pool in discovery order that is neither, and None when there
\* is no such pool.
C10_QueryPool ==
  \A t \in QueryCalls :
     LET x == tasks[t].data.exclude
         r == tasks[t].pick
     IN /\ r # None
           => /\ r \in DataPools
              /\ Pickable(r, x)
              /\ \A q \in DataPools : PosOf(q) < PosOf(r) => ~Pickable(q, x)
        /\ r = None <=> \A q \in DataPools : ~Pickable(q, x)

\* the only pool imported has a passphrase-encrypted or locked root dataset:
\* nothing is picked
C10_Witness ==
  \E t \in QueryCalls :
     /\ imported = {"tank"}
     /\ rootState["tank"] \in {"pass", "locked"}
     /\ tasks[t].data.exclude = None
     /\ tasks[t].pick = None

\* the quiesce guard of frame t has been left
GuardExited(t) == tasks[t].guard = "exited"

\* C11: for every execution of the quiesce guard, the sequence of service
\* start calls issued on exit is exactly the reverse of the sequence of
\* service stop calls issued on entry.
C11_StartsReverseStops ==
  \A t \in TaskIds :
     GuardExited(t) => tasks[t].starts = Reverse(tasks[t].stops)

\* C12: after the quiesce guard has been left, on every exit path, every
\* service for which the guard issued a stop call is running again.
C12_NoServiceLeftStopped ==
  \A t \in TaskIds :
     GuardExited(t) => SeqSet(tasks[t].stops) \subseteq running

\* a direct call of __mount on frame t, made n times
MountCall(t, n) == tasks[t].kind = "mount" /\ tasks[t].calls = n

NoRepeat(q) == \A i, j \in 1..Len(q) : i # j => q[i] # q[j]

\* C13: a second __mount call for the same (pool, uuid, path), with no
\* unmount in between, runs no mount command, leaves the mount table as it
\* was and returns False; no call mounts a mountpoint that is mounted.
C13_MountIdempotent ==
  \A t \in TaskIds :
     /\ MountCall(t, 2) =>
          /\ tasks[t].result = "ok"
          /\ tasks[t].issued = <<>>
          /\ tasks[t].mounted = "False"
          /\ mounts = tasks[t].sys0.mounts
     /\ tasks[t].kind = "mount" =>
          /\ \A i \in 1..Len(tasks[t].issued) :
                ~IsMount(tasks[t].sys0.mounts, tasks[t].issued[i].mp)
          /\ NoRepeat([i \in 1..Len(tasks[t].issued) |-> tasks[t].issued[i].mp])

\* a second call was made after a first call that mounted the whole tree of
\* tank at the scratch path
C13_Witness ==
  \E t \in TaskIds :
     /\ MountCall(t, 2)
     /\ tasks[t].data.pool = "tank" /\ tasks[t].path = ScratchPath
     /\ AllMountedAt(mounts, "tank", MyUuid, ScratchPath)

\* a direct call of __get_datasets on frame t
ListingCall(t) == tasks[t].kind = "get_datasets"

LabelsOf(listing) == [i \in 1..Len(listing) |-> listing[i].name]

\* C14: for any two pools and the same uuid the listings of __get_datasets
\* have the same labels in the same order; the first entry is the root
\* '<pool>/.system' with the empty label and every other entry is
\* '<pool>/.system/<label>' with a label that is not empty.
C14_SameTopology ==
  \A t \in TaskIds : ListingCall(t) =>
     LET l == tasks[t].listing
         pool == tasks[t].data.pool IN
       /\ Len(l) >= 1
       /\ l[1] = [dataset |-> Dataset(pool, RootLabel), name |-> RootLabel]
       /\ \A i \in 2..Len(l) :
             l[i].name # RootLabel /\ l[i].dataset = Dataset(pool, l[i].name)
       /\ \A u \in TaskIds :
             (ListingCall(u) /\ tasks[u].cfg.uuid = tasks[t].cfg.uuid)
                => LabelsOf(tasks[u].listing) = LabelsOf(l)

\* two listings were taken for different pools and the same uuid
C14_Witness ==
  \E t, u \in TaskIds :
     /\ ListingCall(t) /\ ListingCall(u)
     /\ tasks[t].data.pool # tasks[u].data.pool
     /\ tasks[t].cfg.uuid = tasks[u].cfg.uuid
     /\ Len(tasks[t].listing) > 1

\* the datasets of the mount commands of frame t, in the order issued
MountOrder(t) == [i \in 1..Len(tasks[t].issued) |-> tasks[t].issued[i].dev]

\* a __mount call followed by the __umount call of the same pool
MountThenUmount(t) == tasks[t].kind = "mount_umount" /\ tasks[t].calls = 1

\* C15: the order in which __umount unmounts is exactly the reverse of the
\* order in which __mount mounted: restricted to the datasets of both
\* calls the umount sequence is the mount sequence reversed; the root is
\* the first dataset mounted and the last unmounted.
C15_ReverseOrder ==
  \A t \in TaskIds : MountThenUmount(t) =>
     LET ms == MountOrder(t)
         us == tasks[t].umounts
         root == Basename(tasks[t].data.pool) IN
       /\ SelectSeq(us, LAMBDA d : d \in SeqSet(ms))
            = Reverse(SelectSeq(ms, LAMBDA d : d \in SeqSet(us)))
       /\ \A i \in 1..Len(ms) : ms[i] = root => i = 1
       /\ \A i \in 1..Len(us) : us[i] = root => i = Len(us)
       /\ NoRepeat(ms) /\ NoRepeat(us)

\* a call mounted the whole tree and the umount call unmounted all of it
C15_Witness ==
  \E t \in TaskIds :
     /\ MountThenUmount(t)
     /\ tasks[t].result = "ok"
     /\ Len(tasks[t].issued) = Len(GetDatasets(tasks[t].data.pool, MyUuid))
     /\ Len(tasks[t].umounts) = Len(tasks[t].issued)
     /\ ~DevMounted(mounts, Basename(tasks[t].data.pool))

\* systemdataset.setup is running on frame t for the second time in succession
SecondSetup(t) == tasks[t].kind = "setup" /\ tasks[t].calls = 2

\* the first run left no cores replacement undone (a delete that failed in
\* the first run and works in the second is a change of the environment)
NothingPending(t) == tasks[t].first.pool \notin tasks[t].sys0.bigCores

FreshSetupDone(t) ==
  /\ tasks[t].kind = "setup" /\ tasks[t].calls = 1 /\ tasks[t].parent = 0
  /\ tasks[t].db0.pool = Empty /\ tasks[t].db0.syslog = FALSE
  /\ imported = {"tank"} /\ rootState["tank"] = "ok"
  /\ tasks[t].pc = "done" /\ tasks[t].result = "ok"

\* tank was selected: all its topology datasets exist and are mounted under
\* /var/db/system
TankSetUp ==
  /\ DatasetSet("tank", MyUuid) \subseteq datasets
  /\ ExactlyMountedAt(mounts, "tank", MyUuid, SYSDATASET_PATH)

\* C17 (as stated): from stored pool '' and syslog false with tank the only
\* data pool, setup() selects tank, creates and mounts its datasets under
\* /var/db/system and returns a configuration with pool = 'tank' and
\* pool_set = false.
C17_ReturnsUnsetTank ==
  \A t \in TaskIds : FreshSetupDone(t) =>
     /\ TankSetUp
     /\ ~tasks[t].bare
     /\ tasks[t].ret.pool = "tank"
     /\ tasks[t].ret.pool_set = FALSE

\* C17 (amended): from stored pool '' and syslog false with tank the only
\* data pool, setup() selects tank, creates and mounts its datasets under
\* /var/db/system, persists pool = 'tank' through the update it submits and
\* returns no configuration; the configuration then resolves to
\* pool = 'tank' with pool_set = true.
C17_PersistsTank ==
  \A t \in TaskIds : FreshSetupDone(t) =>
     /\ TankSetUp
     /\ tasks[t].bare
     /\ db.pool = "tank"
     /\ ConfigExtend(db, force_pool, nodeB, mounts, Empty).pool = "tank"
     /\ ConfigExtend(db, force_pool, nodeB, mounts, Empty).pool_set = TRUE

\* such a setup() has returned on a system whose datasets were on the boot pool
C17_Witness ==
  \E t \in TaskIds :
     /\ FreshSetupDone(t)
     /\ DatasetSet(BootPool, InitUuid) \subseteq tasks[t].sys0.datasets
     /\ TankSetUp

\* frame t is an update job submitted through the API
TopUpdate(t) == tasks[t].kind = "update" /\ tasks[t].parent = 0

\* C18: two concurrently submitted updates never interleave: while one is
\* between its start and its end (validation, persisting, migration,
\* setup), no other update is between its start and its end.
C18_UpdatesSerialized ==
  \A t, u \in TaskIds :
     (t # u /\ tasks[t].kind = "update" /\ tasks[u].kind = "update")
        => ~(HoldsLock(t) /\ HoldsLock(u))

\* two updates were queued together and both have migrated the dataset
C18_Witness ==
  \E t, u \in TaskIds :
     /\ t # u /\ TopUpdate(t) /\ TopUpdate(u)
     /\ tasks[t].pc = "done" /\ tasks[t].copy = "ok"
     /\ tasks[u].pc = "done" /\ tasks[u].copy = "ok"

\* C19: every update completes or fails: no update job that holds the lock
\* sysdataset_update is ever waiting for a nested update job submitted by
\* its own setup pass, which can start only when that lock is free.
C19_NeverWaitsOnNestedUpdate ==
  \A t \in TaskIds : ~WaitsForItsOwnLock(t)

\* no update or setup operation is in progress
Quiescent == \A t \in TaskIds : tasks[t].kind = "free" \/ tasks[t].pc = "done"

\* the system dataset had been set up and mounted before the first operation
WasSetUp == db.uuid = InitUuid

\* C20: whenever no update or setup is in progress, after any sequence of
\* operations each of which ended in success or failure, a system dataset
\* root is mounted at /var/db/system.
C20_RootAlwaysMounted ==
  (Quiescent /\ WasSetUp) => IsMount(mounts, MountPoint(SYSDATASET_PATH, RootLabel))

\* C21: once a stored identifier (primary or secondary) is set, no step of
\* a configuration read or of an update, on node A or on node B, changes
\* its stored value; an identifier is written only when the local one
\* (the secondary on node B, else the primary) was empty.
C21_IdentifiersStable ==
  [][ /\ Truthy(db.uuid) => db'.uuid = db.uuid
      /\ Truthy(db.uuid_b) => db'.uuid_b = db.uuid_b
      /\ (db'.uuid # db.uuid \/ db'.uuid_b # db.uuid_b) => ~Truthy(LocalUuid(db, nodeB)) ]_vars

\* the pre-export hook of frame t has returned without raising
HookReturned(t) ==
  tasks[t].kind = "pre_export" /\ tasks[t].pc = "done" /\ tasks[t].result = "ok"

\* the hook found the system dataset on the pool being exported
LivesOnExported(t) == tasks[t].scfg.pool = tasks[t].data.pool

\* the system dataset has left pool p: the effective pool is another one and
\* no dataset of p is mounted under /var/db/system
MovedAwayFrom(p) ==
  /\ EffectivePool(db.pool, force_pool) # p
  /\ \A i \in 1..Len(mounts) :
        mounts[i].mp.path = SYSDATASET_PATH => mounts[i].dev.pool # p

\* C22 (as stated): when the pre-export hook for pool P returns and the
\* system dataset lived on P, the effective pool is not P and no dataset of
\* P is mounted at the stable path; when the dataset did not live on P the
\* hook has changed nothing.
C22_HookRelocatesOrNothing ==
  \A t \in TaskIds : HookReturned(t) =>
     IF LivesOnExported(t) THEN MovedAwayFrom(tasks[t].data.pool)
     ELSE db = tasks[t].db0 /\ Snapshot = tasks[t].sys0

\* C22 (amended): as above, but when the dataset did not live on P the hook
\* has changed nothing other than a node identifier that was empty and that
\* its configuration read generated and stored.
C22_HookRelocatesOrReadsOnly ==
  \A t \in TaskIds : HookReturned(t) =>
     IF LivesOnExported(t) THEN MovedAwayFrom(tasks[t].data.pool)
     ELSE /\ db.pool = tasks[t].db0.pool
          /\ db.syslog = tasks[t].db0.syslog
          /\ db.uuid_b = tasks[t].db0.uuid_b
          /\ Truthy(tasks[t].db0.uuid) => db.uuid = tasks[t].db0.uuid
          /\ Snapshot = tasks[t].sys0

\* the hook returned after the dataset was moved off the exported pool
C22_Witness ==
  \E t \in TaskIds :
     /\ HookReturned(t) /\ LivesOnExported(t)
     /\ tasks[t].data.pool = "tank"
     /\ AllMountedAt(mounts, EffectivePool(db.pool, force_pool), MyUuid, SYSDATASET_PATH)

\* a configuration read made on frame t
ConfigRead(t) == tasks[t].kind = "config"

\* C23: the resolved pool is the forced pool if one is set, else the stored
\* pool if it is not empty, else the boot pool; pool_set is true exactly
\* when the stored pool is not empty, whatever the forced pool.
C23_EffectivePool ==
  \A t \in TaskIds : ConfigRead(t) =>
     LET stored == tasks[t].db0.pool
         forced == tasks[t].sys0.force_pool IN
       /\ tasks[t].ret.pool = (IF forced # Empty THEN forced
                               ELSE IF stored # Empty THEN stored ELSE BootPool)
       /\ tasks[t].ret.pool_set = (stored # Empty)

\* a read resolved the forced pool while another pool was stored
C23_Witness ==
  \E t \in TaskIds :
     /\ ConfigRead(t)
     /\ tasks[t].sys0.force_pool = BootPool
     /\ tasks[t].db0.pool = "tank"
     /\ tasks[t].ret.pool = BootPool /\ tasks[t].ret.pool_set

\* the pcs of a setup pass after its start (lines 310-348)
PassPcs == {"su_switch", "su_rel_umount", "su_rel_datasets", "su_rel_mount",
            "su_restore", "su_final"}

\* frame t is in a setup pass past its start, or is a setup() that ran one
InOrAfterPass(t) ==
  \/ tasks[t].pc \in PassPcs
  \/ tasks[t].kind = "setup" /\ tasks[t].pc = "done" /\ ~tasks[t].bare

\* the stored pool is a data pool whose root dataset is missing or locked
StoredPoolUnavailable ==
  /\ db.pool # Empty /\ db.pool # BootPool
  /\ (db.pool \notin imported \/ rootState[db.pool] = "locked")

\* C24: every setup pass clears the forced pool at its start and sets it, to
\* the boot pool, exactly when the configured pool is not the boot pool and
\* its root dataset is missing or locked: a forced pool of an earlier pass
\* does not survive a pass whose configured pool is available.
C24_ForcedPool ==
  \A t \in TaskIds : InOrAfterPass(t) =>
     force_pool = (IF StoredPoolUnavailable THEN BootPool ELSE Empty)

\* a pass has ended that started with the boot pool forced by an earlier
\* pass and found tank unlocked: the forced pool is gone, tank is mounted
C24_Witness ==
  \E t \in TaskIds :
     /\ tasks[t].kind = "setup" /\ tasks[t].pc = "done" /\ tasks[t].result = "ok"
     /\ ~tasks[t].bare
     /\ tasks[t].sys0.force_pool = BootPool
     /\ force_pool = Empty
     /\ AllMountedAt(mounts, "tank", MyUuid, SYSDATASET_PATH)

\* a pass has ended that found the root dataset of tank locked and forced
\* the boot pool
C24_WitnessForced ==
  \E t \in TaskIds :
     /\ tasks[t].kind = "setup" /\ tasks[t].pc = "done" /\ tasks[t].result = "ok"
     /\ tasks[t].sys0.force_pool = Empty
     /\ force_pool = BootPool

\* the positions of the calls of operation op in a sequence of guard calls
CallsAt(q, op) == {i \in 1..Len(q) : q[i].op = op}
SyslogRestartsAt(q) == {i \in CallsAt(q, "service.restart") : q[i].arg = "syslogd"}

\* the pcs of the blocks run under the guard
BlockPcs == {"mig_copy", "mig_umount_from", "mig_umount_to", "mig_remount",
             "mig_destroy", "mig_rmdir", "su_rel_umount", "su_rel_datasets",
             "su_rel_mount"}

\* C25: on entry the guard takes syslog off the dataset and restarts syslogd
\* before it stops any service and before the guarded block runs; on exit it
\* restores the eligibility of the dataset for syslog before it starts any
\* service again.
C25_SyslogFirst ==
  \A t \in TaskIds :
     LET f == tasks[t] IN
     /\ f.guard # "none" =>
          /\ \E i \in CallsAt(f.enter, "cache.put") :
               \E j \in SyslogRestartsAt(f.enter) :
                  /\ i < j
                  /\ \A k \in CallsAt(f.enter, "service.stop") : j < k
          /\ [k \in 1..Len(f.stops) |->
                 f.enter[Len(f.enter) - Len(f.stops) + k].arg] = f.stops
     /\ f.pc \in BlockPcs => f.guard = "in" /\ syslogCache = "False"
                             /\ SyslogRestartsAt(f.enter) # {}
     /\ f.guard = "exited" =>
          /\ \E i \in CallsAt(f.exit, "cache.pop") :
               \A k \in CallsAt(f.exit, "service.start") : i < k
          /\ Cardinality(CallsAt(f.exit, "service.start")) = Len(f.starts)
          /\ syslogCache = "unset"

\* a guard has stopped services, run its block and started them again
C25_Witness ==
  \E t \in TaskIds :
     /\ tasks[t].guard = "exited"
     /\ ~tasks[t].raise
     /\ Len(tasks[t].stops) >= 3
     /\ Len(tasks[t].starts) = Len(tasks[t].stops)

\* a direct __umount call on frame t has returned or raised
UmountCall(t) == tasks[t].kind = "mount_umount"

\* the dataset whose umount command was the last one run by the call
LastUmount(t) == tasks[t].umounts[Len(tasks[t].umounts)]

\* the devices of a mount table
Devices(m) == {m[i].dev : i \in 1..Len(m)}

\* C26: when umount fails with 'target is busy', __umount fails with the
\* call error that names the dataset and, the mountpoint being known, lists
\* the processes using it; it does not retry and unmounts no further
\* dataset.
C26_BusyCallError ==
  \A t \in TaskIds :
     (UmountCall(t) /\ tasks[t].stderr = TargetBusy) =>
        /\ tasks[t].result = "error"
        /\ tasks[t].error.type = "CallError"
        /\ tasks[t].error.names = LastUmount(t)
        /\ (LastUmount(t) \in Devices(mounts) => tasks[t].error.processes)
        /\ LastUmount(t) \in Devices(mounts)

\* the part of C26 the code keeps: a busy dataset ends the call; it stays
\* mounted, and so does every dataset after it in the reverse order
C26_NoRetryNoFurther ==
  \A t \in TaskIds :
     (UmountCall(t) /\ tasks[t].stderr = TargetBusy) =>
        /\ tasks[t].result = "error"
        /\ LastUmount(t) \in Devices(mounts)
        /\ \A d \in Devices(tasks[t].mig0.mounts) :
              d \notin SeqSet(tasks[t].umounts) => d \in Devices(mounts)
        /\ Len(SelectSeq(tasks[t].umounts, LAMBDA d : d = LastUmount(t))) = 1

\* a call failed on a busy dataset that was not the last of the order
C26_BusySeen ==
  \E t \in TaskIds :
     /\ UmountCall(t) /\ tasks[t].stderr = TargetBusy
     /\ \E d \in Devices(mounts) : d \notin SeqSet(tasks[t].umounts)

\* the datasets of the pool of call t, in the order __umount walks them
UmountOrder(t) ==
  LET rd == Reverse(GetDatasets(tasks[t].data.pool, MyUuid))
  IN [i \in 1..Len(rd) |-> rd[i].dataset]

\* the datasets the call found not mounted
FoundUnmounted(t) == SeqSet(tasks[t].umounts) \ Devices(tasks[t].mig0.mounts)

\* C27: a dataset that is already unmounted is no error: __umount raises
\* only for a dataset that was mounted, and after an unmounted dataset it
\* goes on with the remaining ones in reverse topology order.
C27_AlreadyUnmountedIsSuccess ==
  \A t \in TaskIds : UmountCall(t) =>
     /\ tasks[t].result = "error" =>
           /\ tasks[t].stderr # ""
           /\ LastUmount(t) \in Devices(tasks[t].mig0.mounts)
     /\ tasks[t].result = "ok" =>
           /\ tasks[t].umounts = UmountOrder(t)
           /\ Len(mounts) = Len(tasks[t].mig0.mounts)
                              - Cardinality(SeqSet(UmountOrder(t))
                                            \cap Devices(tasks[t].mig0.mounts))
     /\ tasks[t].umounts = SubSeq(UmountOrder(t), 1, Len(tasks[t].umounts))

\* a call found a dataset unmounted and went on to unmount a mounted one
C27_Witness ==
  \E t \in TaskIds :
     /\ UmountCall(t) /\ tasks[t].result = "ok"
     /\ \E i, j \in 1..Len(tasks[t].umounts) :
           /\ i < j
           /\ tasks[t].umounts[i] \in FoundUnmounted(t)
           /\ tasks[t].umounts[j] \in Devices(tasks[t].mig0.mounts)

\* a direct __mount call on frame t has raised
MountFailed(t) == tasks[t].kind = "mount" /\ tasks[t].result = "error"

\* the mountpoints of the pool of call t, in the order __mount walks them
MountPoints(t) ==
  LET gd == GetDatasets(tasks[t].data.pool, MyUuid)
  IN [i \in 1..Len(gd) |-> MountPoint(tasks[t].path, gd[i].name)]

\* the position of the dataset whose mount command failed: the first
\* mountpoint of the order that is not mounted
FailedAt(t) ==
  LET mps == MountPoints(t)
  IN CHOOSE k \in 1..Len(mps) :
        /\ ~IsMount(mounts, mps[k])
        /\ \A i \in 1..(k - 1) : IsMount(mounts, mps[i])

\* C28: when mounting one dataset fails, __mount fails; it has mounted no
\* dataset after the failing one, and every dataset mounted before the
\* failure, by this call or before it, is still mounted: nothing is rolled
\* back.
C28_MountFailureKeepsMounts ==
  \A t \in TaskIds : MountFailed(t) =>
     LET mps == MountPoints(t)
         before == tasks[t].sys0.mounts IN
       /\ \E k \in 1..Len(mps) : ~IsMount(mounts, mps[k])
       /\ SubSeq(mounts, 1, Len(before)) = before
       /\ MountsAdded(before, mounts) = tasks[t].issued
       /\ \A j \in 1..Len(mps) :
             j > FailedAt(t) => \A i \in 1..Len(tasks[t].issued) :
                                   tasks[t].issued[i].mp # mps[j]
       /\ \A i \in 1..Len(tasks[t].issued) :
             \E j \in 1..(FailedAt(t) - 1) : tasks[t].issued[i].mp = mps[j]

\* a call mounted a dataset, failed at the next and left later ones unmounted
C28_Witness ==
  \E t \in TaskIds :
     /\ MountFailed(t)
     /\ tasks[t].issued # <<>>
     /\ FailedAt(t) < Len(MountPoints(t))
     /\ \E j \in (FailedAt(t) + 1)..Len(MountPoints(t)) :
           /\ ~IsMount(mounts, MountPoints(t)[j])
           /\ GetDatasets(tasks[t].data.pool, MyUuid)[j].dataset \in datasets

\* the migrate of update t copied the data and then failed to unmount a
\* dataset of the old pool (line 541): __umount(_to) was never called
TeardownUmountFailed(t) ==
  /\ tasks[t].kind = "update" /\ tasks[t].pc = "done"
  /\ tasks[t].copy = "ok"
  /\ "umount_from" \in tasks[t].did
  /\ "umount_to" \notin tasks[t].did

\* C29: a failure to unmount a dataset of the old pool after a successful
\* copy is logged, not raised, and the switch is not reverted: the
\* migration ends with the datasets of the new pool mounted at the stable
\* path.
C29_TeardownFailureLogged ==
  \A t \in TaskIds : TeardownUmountFailed(t) =>
     /\ tasks[t].result = "ok"
     /\ AllMountedAt(mounts, tasks[t].to, MyUuid, SYSDATASET_PATH)

\* the migrate of update t mounted the new pool at the stable path and then
\* failed to destroy the .system subtree of the old pool
DestroyFailed(t) ==
  /\ tasks[t].kind = "update"
  /\ "destroy" \in tasks[t].did
  /\ Basename(tasks[t].from) \in datasets

\* C30: a failure to destroy the .system subtree of the old pool is not
\* raised: migrate goes on and returns without an exception, and the update,
\* nothing else failing, returns the configuration resolved for the new
\* pool, whose datasets are mounted at the stable path.
C30_DestroyFailureNotRaised ==
  \A t \in TaskIds : DestroyFailed(t) =>
     /\ tasks[t].pc \notin {"mig_destroy", "queued", "validate", "persist"}
     /\ tasks[t].pc \in {"mig_rmdir", "mig_restore"} => ~tasks[t].raise
     /\ (tasks[t].pc = "done" /\ faults = 1) =>
           /\ tasks[t].result = "ok"
           /\ tasks[t].ret.pool = tasks[t].to
           /\ tasks[t].ret.path = SYSDATASET_PATH
           /\ AllMountedAt(mounts, tasks[t].to, MyUuid, SYSDATASET_PATH)

\* an update returned after its migrate failed to destroy the old subtree
C30_Witness ==
  \E t \in TaskIds :
     /\ DestroyFailed(t)
     /\ tasks[t].pc = "done" /\ tasks[t].result = "ok"
     /\ tasks[t].ret.pool = tasks[t].to
     /\ DatasetSet(tasks[t].from, MyUuid) \subseteq datasets

\* frame t ran a setup pass to its end (line 388)
PassFinished(t) ==
  /\ tasks[t].kind \in {"setup", "update"}
  /\ tasks[t].pc \in {"upd_tail", "done"}
  /\ tasks[t].pc = "done" => tasks[t].result = "ok" /\ ~tasks[t].bare

\* C31: at the end of a setup pass the restarts of rrdcached and syslogd and
\* the SMB directory and configuration setup are triggered if and only if
\* the pass mounted at least one dataset; a pass that mounted nothing
\* triggers none of them.
C31_TriggersIffMounted ==
  \A t \in TaskIds : PassFinished(t) =>
     IF tasks[t].added # <<>>
     THEN tasks[t].triggers = {"service.restart rrdcached", "service.restart syslogd",
                               "smb.setup_directories", "smb.configure"}
     ELSE tasks[t].triggers = {}

\* a pass mounted a dataset and triggered the restarts
C31_Witness ==
  \E t \in TaskIds :
     /\ PassFinished(t) /\ tasks[t].pc = "done"
     /\ tasks[t].added # <<>>
     /\ "service.restart syslogd" \in tasks[t].triggers
     /\ {"rrdcached", "syslogd"} \subseteq running

\* a pass mounted nothing and triggered nothing
C31_WitnessNothing ==
  \E t \in TaskIds :
     /\ PassFinished(t) /\ tasks[t].pc = "done"
     /\ tasks[t].added = <<>>
     /\ tasks[t].triggers = {}

(***************************************************************************)
(* The pool hooks: no data pool or tank alone is imported; the stored pool *)
(* is empty or tank; with tank stored and not imported the last setup pass *)
(* has forced the boot pool.  Pools are created and imported, one at a     *)
(* time, between the other operations.                                     *)
(***************************************************************************)
InitHooks ==
  /\ imported \in {{}, {"tank"}}
  /\ rootState = [q \in DataPools |-> "ok"]
  /\ avail = [q \in AllPools |-> AvailHigh]
  /\ used = UsedBytes
  /\ nodeB = FALSE
  /\ db \in {[pool |-> sp, syslog |-> FALSE, uuid |-> InitUuid, uuid_b |-> Empty] :
               sp \in {Empty, "tank"}}
  /\ force_pool = IF db.pool = "tank" /\ "tank" \notin imported THEN BootPool ELSE Empty
  /\ datasets = DatasetSet(BootPool, InitUuid)
                 \cup (IF db.pool = "tank" THEN DatasetSet("tank", InitUuid) ELSE {})
  /\ bigCores = {}
  /\ mounts = MountAll(EffectivePool(db.pool, force_pool), InitUuid, SYSDATASET_PATH)
  /\ scratchDir = FALSE
  /\ coredump = TRUE
  /\ running = BaseServices
  /\ syslogCache = "unset"
  /\ tasks = [t \in TaskIds |-> FreeFrame]
  /\ ops = 0
  /\ faults = 0

NextHooks ==
  \/ \E t \in TaskIds, pool \in DataPools, hook \in {"post_create", "post_import"} :
        Idle /\ PoolArrives(t, pool, hook)
  \/ \E t \in TaskIds : PostCreate(t)
  \/ \E t \in TaskIds : PostImport(t)
  \/ Next

SpecHooks == InitHooks /\ [][NextHooks]_vars

\* the hook of frame t has decided whether to call setup
HookDecided(t) == tasks[t].hook # "" /\ tasks[t].pc # "hook_start"

\* the effective pool of the system dataset when the hook of frame t ran
PoolAtHook(t) ==
  IF tasks[t].sys0.force_pool # Empty THEN tasks[t].sys0.force_pool
  ELSE IF tasks[t].db0.pool # Empty THEN tasks[t].db0.pool ELSE BootPool

\* C32: the pool-created hook calls setup if and only if the effective pool
\* of the system dataset is the boot pool; the pool-imported hook calls
\* setup on every import.
C32_HooksCallSetup ==
  \A t \in TaskIds : HookDecided(t) =>
     /\ tasks[t].hook = "post_create" => (tasks[t].invoked <=> PoolAtHook(t) = BootPool)
     /\ tasks[t].hook = "post_import" => tasks[t].invoked
     /\ tasks[t].invoked <=> tasks[t].kind = "setup"

\* a pool-created hook returned without calling setup, the dataset being on tank
C32_Witness ==
  \E t \in TaskIds :
     /\ HookDecided(t) /\ tasks[t].hook = "post_create"
     /\ ~tasks[t].invoked
     /\ PoolAtHook(t) = "tank"

\* a pool-created hook called setup
C32_WitnessCalled ==
  \E t \in TaskIds :
     HookDecided(t) /\ tasks[t].hook = "post_create" /\ tasks[t].invoked

\* the positions of the start calls of service s in the exit of frame t
StartedAt(t, s) ==
  {i \in CallsAt(tasks[t].exit, "service.start") : tasks[t].exit[i].arg = s}

\* C33: when the guard captured both glusterd and cifs, on exit glusterd is
\* started before cifs, which depends on it.
C33_ClusterBeforeFileServing ==
  \A t \in TaskIds :
     (GuardExited(t) /\ {"glusterd", "cifs"} \subseteq SeqSet(tasks[t].stops)) =>
        \A i \in StartedAt(t, "cifs") : \E j \in StartedAt(t, "glusterd") : j < i

\* what the code does: cifs is started, then glusterd
C33_FileServingFirst ==
  \A t \in TaskIds :
     (GuardExited(t) /\ {"glusterd", "cifs"} \subseteq SeqSet(tasks[t].stops)) =>
        \A j \in StartedAt(t, "glusterd") : \E i \in StartedAt(t, "cifs") : i < j

\* frame t is inside the scope of the guard: every service of its list has
\* been stopped and none has been started again
InsideScope(t) ==
  /\ tasks[t].guard = "in"
  /\ ~tasks[t].raise
  /\ tasks[t].pc \in BlockPcs
  /\ SeqSet(tasks[t].restart) \cap running = {}
  /\ tasks[t].stops = tasks[t].restart

InitRace ==
  /\ InitHooks
  /\ imported = {"tank"}
  /\ db.pool = Empty

NextRace ==
  \/ \E t \in TaskIds, hook \in {"post_create", "post_import"} :
        PoolArrives(t, "backup", hook)
  \/ \E t \in TaskIds : PostCreate(t)
  \/ \E t \in TaskIds : PostImport(t)
  \/ Next

SpecRace == InitRace /\ [][NextRace]_vars

\* frame t is at a step of a setup pass that mounts or unmounts at the
\* stable path (lines 350-371)
AtStablePath(t) == tasks[t].pc \in PassPcs

\* frame t is in the migration steps that unmount the old pool and mount
\* the new one at the stable path (lines 540-543)
MigratingAtStablePath(t) ==
  /\ tasks[t].kind = "update"
  /\ tasks[t].pc \in {"mig_umount_from", "mig_umount_to", "mig_remount"}

\* C35: a setup pass started by a pool hook never interleaves its mount and
\* unmount steps with the migration steps of an update in progress: at most
\* one operation at a time mounts or unmounts at the stable path.
C35_OneAtStablePath ==
  \A t, u \in TaskIds :
     (t # u /\ tasks[t].hook # "" /\ AtStablePath(t)) => ~MigratingAtStablePath(u)

\* update t was called with syslog only (no pool key) and has written the
\* configuration (lines 217-223)
SyslogOnlyWritten(t) ==
  /\ tasks[t].kind = "update"
  /\ tasks[t].data.pool = Unspec /\ tasks[t].data.has_syslog
  /\ tasks[t].pc \notin {"queued", "validate", "persist"}
  /\ tasks[t].result # "verror"

\* C36: an update that gives only the syslog flag leaves the stored pool as
\* it was: a stored pool that was empty is still empty, and a forced pool
\* is never written into the stored pool.
C36_SyslogOnlyKeepsPool ==
  \A t \in TaskIds : SyslogOnlyWritten(t) => db.pool = tasks[t].db0.pool

\* the update of frame t has ended, in success or in failure
UpdateEnded(t) == tasks[t].kind = "update" /\ tasks[t].pc = "done"

\* the mounted pool and the persisted configuration agreed when the update
\* of frame t was called
AgreedAtStart(t) ==
  GetMountedPool(tasks[t].sys0.mounts)
     = EffectivePool(tasks[t].db0.pool, tasks[t].sys0.force_pool)

\* C37: whenever an update has ended, in success or in failure, the pool
\* whose root dataset is mounted at the stable path is the effective pool
\* of the persisted configuration.
C37_MountedIsPersisted ==
  \A t \in TaskIds :
     (UpdateEnded(t) /\ AgreedAtStart(t))
        => GetMountedPool(mounts) = EffectivePool(db.pool, force_pool)

\* the part of C37 that holds: after an update that ended in success
C37_AfterSuccess ==
  \A t \in TaskIds :
     (UpdateEnded(t) /\ tasks[t].result = "ok")
        => GetMountedPool(mounts) = EffectivePool(db.pool, force_pool)

(***************************************************************************)
(* The services at the entry of the guard: collectd is stopped, or all     *)
(* three base services run, with or without cifs.                          *)
(***************************************************************************)
ServiceDraws == {BaseServices \ {"collectd"}, BaseServices, BaseServices \cup {"cifs"}}

InitServices ==
  /\ imported = DataPools
  /\ rootState = [q \in DataPools |-> "ok"]
  /\ avail = [q \in AllPools |-> AvailHigh]
  /\ used = UsedBytes
  /\ nodeB = FALSE
  /\ db \in {[pool |-> sp, syslog |-> FALSE, uuid |-> InitUuid, uuid_b |-> Empty] :
               sp \in {Empty, "tank"}}
  /\ force_pool = Empty
  /\ datasets = DatasetSet(EffectivePool(db.pool, Empty), InitUuid)
  /\ bigCores = {}
  /\ mounts = MountAll(EffectivePool(db.pool, Empty), InitUuid, SYSDATASET_PATH)
  /\ scratchDir = FALSE
  /\ coredump = TRUE
  /\ running \in ServiceDraws
  /\ syslogCache = "unset"
  /\ tasks = [t \in TaskIds |-> FreeFrame]
  /\ ops = 0
  /\ faults = 0

SpecServices == InitServices /\ [][Next]_vars

SmbParams == {"dns proxy", "printing"}
IdmapParams == {"idmap config * : backend"}
RegValues == {"a", "b"}

ConfsOver(keys) == UNION {[S -> RegValues] : S \in SUBSET keys}

\* dict | dict: the right side wins
Merge(a, b) ==
  [k \in (DOMAIN a) \cup (DOMAIN b) |-> IF k \in DOMAIN b THEN b[k] ELSE a[k]]

Restrict(c, keys) == [k \in keys |-> c[k]]

\* lines 72-100, reg_globals()['smb']: the registry without the idmap
\* parameters (strip_idmap, lines 42-55)
RegGlobalsSmb(registry) == Restrict(registry, (DOMAIN registry) \ IdmapParams)

\* lines 199-216, global_to_smbconf: the parameters of the schema, then
\* every line `key=value` of smb_options on top; a line without `=` is
\* skipped
RECURSIVE OptionsOnto(_, _, _)
OptionsOnto(i, lines, to_set) ==
  IF i > Len(lines) THEN to_set
  ELSE IF lines[i].has_eq
       THEN OptionsOnto(i + 1, lines, Merge(to_set, [k \in {lines[i].key} |-> lines[i].value]))
       ELSE OptionsOnto(i + 1, lines, to_set)

GlobalToSmbconf(data) == OptionsOnto(1, data.smb_options, data.schema)

\* lines 181-197, diff_conf_and_registry
DiffConfAndRegistry(new_conf, running_conf, full_check) ==
  LET s_keys == DOMAIN new_conf
      r_keys == DOMAIN running_conf
      intersect == s_keys \cap r_keys
  IN [ added    |-> Restrict(new_conf, s_keys \ r_keys),
       removed  |-> IF full_check THEN Restrict(running_conf, r_keys \ s_keys) ELSE <<>>,
       modified |-> Restrict(new_conf, {x \in intersect : new_conf[x] # running_conf[x]}) ]

\* lines 122-127, global_setparm: net conf setparm sets the parameters of
\* the payload in the registry
GlobalSetparm(registry, parameters) == Merge(registry, parameters)

\* lines 129-134, global_delparm: net conf delparm deletes them
GlobalDelparm(registry, parameters) ==
  Restrict(registry, (DOMAIN registry) \ (DOMAIN parameters))

\* lines 136-145, reg_apply_conf_diff: the set payload goes to
\* global_setparm, and so does the delete payload (line 145).  failAt: the
\* net command that returns non-zero (0: none), which raises CallError.
RegApplyConfDiff(registry, diff, failAt) ==
  LET set_payload == Merge(diff.added, diff.modified)
      del_payload == diff.removed
      r1 == IF DOMAIN set_payload # {} /\ failAt # 1
            THEN GlobalSetparm(registry, set_payload) ELSE registry
      ok1 == ~(DOMAIN set_payload # {} /\ failAt = 1)
      r2 == IF ok1 /\ DOMAIN del_payload # {} /\ failAt # 2
            THEN GlobalSetparm(r1, del_payload) ELSE r1
      ok2 == ok1 /\ ~(DOMAIN del_payload # {} /\ failAt = 2)
  IN [registry |-> r2, ok |-> ok2]

\* lines 148-151, reg_update(data)
RegUpdate(registry, data, failAt) ==
  RegApplyConfDiff(registry,
                   DiffConfAndRegistry(GlobalToSmbconf(data), RegGlobalsSmb(registry), TRUE),
                   failAt)

\* the configurations handed to reg_update: the schema part and at most one
\* line of smb_options, with or without `=`
OptionDraws ==
  {<<>>} \cup {<<[key |-> k, value |-> v, has_eq |-> e]>> :
                  k \in SmbParams, v \in RegValues, e \in BOOLEAN}

DataDraws == {[schema |-> s, smb_options |-> o] : s \in ConfsOver(SmbParams), o \in OptionDraws}

\* await self.reg_update(data) on a registry
CallRegUpdate(t, registry, data) ==
  /\ ops < MaxOps
  /\ Idle
  /\ FreeSlot(t)
  /\ \E fault \in FaultChoices({1, 2}) :
       LET r == RegUpdate(registry, data, fault) IN
       /\ faults' = faults + Cost(fault)
       /\ tasks' = [tasks EXCEPT ![t] =
             [FreeFrame EXCEPT !.kind = "reg_update", !.pc = "done",
                               !.conf = GlobalToSmbconf(data),
                               !.reg0 = registry, !.reg = r.registry,
                               !.result = IF r.ok THEN "ok" ELSE "error"]]
  /\ ops' = ops + 1
  /\ UNCHANGED <<envVars, sysVars>>

NextRegistry ==
  \/ \E t \in TaskIds, registry \in ConfsOver(SmbParams \cup IdmapParams), data \in DataDraws :
        CallRegUpdate(t, registry, data)
  \/ \E t \in TaskIds : Reap(t)

InitRegistry == InitTree /\ mounts = <<>>

SpecRegistry == InitRegistry /\ [][NextRegistry]_vars

\* reg_update has returned on frame t without an error
RegUpdated(t) == tasks[t].kind = "reg_update" /\ tasks[t].result = "ok"

\* C39: after reg_update(data) has returned without error the global
\* parameters of the registry are the parameters derived from data: what
\* was missing is set, what differed is overwritten, what the desired
\* configuration does not have is deleted.
C39_RegistryEqualsConf ==
  \A t \in TaskIds : RegUpdated(t) => RegGlobalsSmb(tasks[t].reg) = tasks[t].conf

\* the part of C39 that holds: every desired parameter is in the registry
\* with the desired value
C39_DesiredAreSet ==
  \A t \in TaskIds : RegUpdated(t) =>
     \A k \in DOMAIN tasks[t].conf :
        k \in DOMAIN tasks[t].reg /\ tasks[t].reg[k] = tasks[t].conf[k]

(***************************************************************************)
(* The failover firewall (plugins/failover_/iptables_linux.py).  A rule is *)
(* a record: its text with the port or the address it is formatted with.   *)
(***************************************************************************)
FilterRule == [text |-> "*filter", arg |-> ""]
ChainRule(chain) == [text |-> ":<chain> ACCEPT [0:0]", arg |-> chain]
AcceptRule(port) == [text |-> "-A INPUT -p tcp -m tcp --dport <port> -j ACCEPT", arg |-> port]
DropRule4(address) == [text |-> "-A INPUT -s <address>/32 -j DROP", arg |-> address]
DropRule6(address) == [text |-> "-A INPUT -s <address>/128 -j DROP", arg |-> address]
CommitRule == [text |-> "COMMIT", arg |-> ""]

\* list.insert(i, x), i counted from 0: x goes before the element at i, or
\* to the end when the list is shorter
Insert(q, i, x) ==
  IF i >= Len(q) THEN Append(q, x)
  ELSE SubSeq(q, 1, i) \o <<x>> \o SubSeq(q, i + 1, Len(q))

\* default rules that leave the ACCEPT rules out
GenerateDefaultRulesNoAccept(data, sshport, web) ==
  <<FilterRule, ChainRule("INPUT"), ChainRule("FORWARD"), ChainRule("OUTPUT")>>

\* lines 18-41, generate_default_rules
GenerateDefaultRules(data, sshport, web) ==
  LET rules == Insert(Insert(Insert(<<FilterRule>>, 1, ChainRule("INPUT")),
                             2, ChainRule("FORWARD")),
                      3, ChainRule("OUTPUT"))
  IN IF data.drop
     THEN rules \o <<AcceptRule(sshport), AcceptRule(web.ui_port),
                     AcceptRule(web.ui_httpsport)>>
     ELSE rules

\* lines 56-60: the DROP rules of the addresses of one family, in the order
\* of the list
RECURSIVE VipRules(_, _, _)
VipRules(i, vips, family) ==
  IF i > Len(vips) THEN <<>>
  ELSE (IF vips[i].type = family
        THEN <<IF family = "INET" THEN DropRule4(vips[i].address)
               ELSE DropRule6(vips[i].address)>>
        ELSE <<>>)
       \o VipRules(i + 1, vips, family)

\* lines 43-66, generate_rules
GenerateRules(data, sshport, web) ==
  LET default_rules == GenerateDefaultRules(data, sshport, web)
  IN [ v4rules |-> Append(default_rules \o VipRules(1, data.vips, "INET"), CommitRule),
       v6rules |-> Append(default_rules \o VipRules(1, data.vips, "INET6"), CommitRule) ]

\* the addresses and ports drawn
MaxVips == 2
VipDraws ==
  UNION {[1..n -> {[type |-> ty, address |-> a] : ty \in {"INET", "INET6"},
                                                   a \in {"vip1", "vip2"}}] : n \in 0..MaxVips}
\* ports as the text the rule is formatted with
PortDraws == {"22", "80", "443"}

\* lines 103-135, drop_all: False without a licence, CallError without a
\* VIP; else the rules are generated, written and restored
CallDropAll(t, licensed, vips, sshport, web) ==
  /\ ops < MaxOps
  /\ Idle
  /\ FreeSlot(t)
  /\ LET frame == [FreeFrame EXCEPT !.kind = "drop_all", !.pc = "done",
                                    !.data = [NoData EXCEPT !.pool = None],
                                    !.conf = [sshport |-> sshport, web |-> web, vips |-> vips]]
     IN IF ~licensed
        THEN tasks' = [tasks EXCEPT ![t] = [frame EXCEPT !.result = "False"]]
        ELSE IF vips = <<>>
        THEN tasks' = [tasks EXCEPT ![t] = [frame EXCEPT !.result = "error"]]
        ELSE LET r == GenerateRules([drop |-> TRUE, vips |-> vips], sshport, web) IN
             tasks' = [tasks EXCEPT ![t] = [frame EXCEPT !.result = "True",
                                                         !.v4rules = r.v4rules,
                                                         !.v6rules = r.v6rules]]
  /\ ops' = ops + 1
  /\ UNCHANGED <<envVars, sysVars, faults>>

NextFirewall ==
  \/ \E t \in TaskIds, licensed \in BOOLEAN, vips \in VipDraws, sshport \in PortDraws,
        ui_httpsport \in PortDraws :
        CallDropAll(t, licensed, vips, sshport,
                    [ui_port |-> "80", ui_httpsport |-> ui_httpsport])
  \/ \E t \in TaskIds : Reap(t)

SpecFirewall == InitRegistry /\ [][NextFirewall]_vars

\* drop_all has produced its rule lists on frame t
RulesProduced(t) == tasks[t].kind = "drop_all" /\ tasks[t].result = "True"

\* the positions of the DROP rules of a list
DropsAt(q) == {i \in 1..Len(q) : q[i] \in {DropRule4(q[i].arg), DropRule6(q[i].arg)}}

\* the list starts with *filter, ends with COMMIT, has the ACCEPT rule of
\* every port, and has it before every DROP rule
WellOrdered(q, ports) ==
  /\ Len(q) >= 2
  /\ q[1] = FilterRule
  /\ q[Len(q)] = CommitRule
  /\ \A p \in ports : \E j \in 1..Len(q) :
        /\ q[j] = AcceptRule(p)
        /\ \A i \in DropsAt(q) : j < i

\* C40: in both rule lists of drop_all the first rule is *filter, the last
\* is COMMIT, and the ACCEPT rules of the SSH port and of both web UI ports
\* come before every DROP rule of a virtual IP.
C40_AcceptBeforeDrop ==
  \A t \in TaskIds : RulesProduced(t) =>
     LET ports == {tasks[t].conf.sshport, tasks[t].conf.web.ui_port,
                   tasks[t].conf.web.ui_httpsport} IN
       /\ WellOrdered(tasks[t].v4rules, ports)
       /\ WellOrdered(tasks[t].v6rules, ports)

\* lists were produced with a DROP rule in each
C40_Witness ==
  \E t \in TaskIds :
     /\ RulesProduced(t)
     /\ DropsAt(tasks[t].v4rules) # {}
     /\ DropsAt(tasks[t].v6rules) # {}

====
